---- MODULE Spec2Model ----
(***************************************************************************)
(* A model of the Sruvaan pipeline: Cryptor -> Decryptor -> Mimicus ->     *)
(* Probator -> Praeceptor -> (next) Cryptor.                               *)
(*                                                                         *)
(* Strings.  A Python str is a sequence of items.  An item is either a    *)
(* literal character <<c>> or a digest block <<"sha256", n, m>>: the first *)
(* n hexadecimal digits of hashlib.sha256(m).hexdigest().  SHA-256 is      *)
(* taken as an ideal hash: blocks of different messages are different      *)
(* strings, and a block never equals a literal string.  A block holds only *)
(* the characters 0-9a-f, so a literal needle with a character outside     *)
(* that range never occurs inside one; every needle the code searches for  *)
(* in a string that holds a block has such a character.                    *)
(*                                                                         *)
(* A character outside ASCII is written by its code point: "u2126" is the   *)
(* OHM SIGN of the field tag, "u03b1" the GREEK SMALL LETTER ALPHA.         *)
(*                                                                         *)
(* Numbers.  A Python float is an integer number of millionths (One is     *)
(* 1.0); the grids of the model keep every product and sum exact.          *)
(*                                                                         *)
(* Dicts.  A Python dict is a sequence of <<key, value>> pairs with        *)
(* distinct keys, in insertion order.                                      *)
(***************************************************************************)
EXTENDS Integers, Sequences, FiniteSets, TLC

\* run_pipeline_with_feedback.  A local holds <<v>> once assigned and <<>> before;
\* a local that no later statement of the function reads is not kept: each
\* state holds the output of the stage that ran last and the input it ran on.
VARIABLES
    LLM_ONLY_MODE,  \* os.getenv('LLM_ONLY_MODE', 'false').lower() == 'true'
    prompter_out,   \* the SemanticPromptOut: the StructuredInput of both iterations
    theta,          \* initial_theta, then updated_theta
    iteration,      \* 1 or 2
    pc,             \* the stage to run next, or "done", or "raised"
    cryptor_out, decryptor_out, mimicus_out, probator_out, praeceptor_out,
    took,           \* which branch each stage of this iteration took (history)
    call, ret       \* a direct call of one function, and what it returned

pipeline_vars ==
    <<LLM_ONLY_MODE, prompter_out, theta, iteration, pc, cryptor_out, decryptor_out,
      mimicus_out, probator_out, praeceptor_out, took>>

vars == <<pipeline_vars, call, ret>>

\* ------------------------------------------------------------------ strings

Str(s) == [i \in 1..Len(s) |-> <<s[i]>>]

IsBlock(item) == Len(item) = 3

\* Characters of the model in increasing code point order (Python compares str
\* by code point; json.dumps(sort_keys=True) sorts the keys that way).
CharOrder ==
    << " ", "$", "-", ".", "0", "1", "2", "3", "4", "5", "6", "7", "8", "9", ":", "=",
       "A", "B", "C", "D", "E", "F", "G", "H", "I", "J", "K", "L", "M", "N", "O", "P",
       "Q", "R", "S", "T", "U", "V", "W", "X", "Y", "Z", "_",
       "a", "b", "c", "d", "e", "f", "g", "h", "i", "j", "k", "l", "m", "n", "o", "p",
       "q", "r", "s", "t", "u", "v", "w", "x", "y", "z",
       "u0393", "u039b", "u039e", "u03a3", "u03a6", "u03a8", "u03b1", "u03b2", "u03b3",
       "u03b6", "u03c0", "u03c4", "u2126", "u2206" >>

CodePoint(c) == CHOOSE i \in 1..Len(CharOrder) : CharOrder[i] = c

\* a < b for two literal strings, as Python orders str
RECURSIVE StrLess(_, _)
StrLess(a, b) ==
    IF b = <<>> THEN FALSE
    ELSE IF a = <<>> THEN TRUE
    ELSE IF Head(a) = Head(b) THEN StrLess(Tail(a), Tail(b))
    ELSE CodePoint(Head(a)[1]) < CodePoint(Head(b)[1])

\* s.startswith(p)
StartsWith(s, p) == Len(s) >= Len(p) /\ SubSeq(s, 1, Len(p)) = p

\* s.endswith(p)
EndsWith(s, p) == Len(s) >= Len(p) /\ SubSeq(s, Len(s) - Len(p) + 1, Len(s)) = p

\* needle in s
Contains(s, needle) ==
    \E i \in 1..(Len(s) - Len(needle) + 1) : SubSeq(s, i, i + Len(needle) - 1) = needle

\* s[n:]
DropFirst(s, n) == SubSeq(s, n + 1, Len(s))

UpperCase == <<"A", "B", "C", "D", "E", "F", "G", "H", "I", "J", "K", "L", "M",
               "N", "O", "P", "Q", "R", "S", "T", "U", "V", "W", "X", "Y", "Z">>
LowerCase == <<"a", "b", "c", "d", "e", "f", "g", "h", "i", "j", "k", "l", "m",
               "n", "o", "p", "q", "r", "s", "t", "u", "v", "w", "x", "y", "z">>

LowerItem(item) ==
    IF IsBlock(item) THEN item
    ELSE IF \E i \in 1..26 : UpperCase[i] = item[1]
         THEN <<LowerCase[CHOOSE i \in 1..26 : UpperCase[i] = item[1]]>>
         ELSE item

\* s.lower()
Lower(s) == [i \in 1..Len(s) |-> LowerItem(s[i])]

\* len(s), a block counting for its n digits
RECURSIVE StrLen(_)
StrLen(s) ==
    IF s = <<>> THEN 0
    ELSE (IF IsBlock(Head(s)) THEN Head(s)[2] ELSE 1) + StrLen(Tail(s))

\* hashlib.sha256(m.encode()).hexdigest()[:n]
Sha256Hex(m, n) == << <<"sha256", n, m>> >>

Digit(d) == <<"0", "1", "2", "3", "4", "5", "6", "7", "8", "9">>[d + 1]

\* str(n) for an integer n >= 0
RECURSIVE IntStr(_)
IntStr(n) == IF n < 10 THEN Str(<<Digit(n)>>) ELSE IntStr(n \div 10) \o Str(<<Digit(n % 10)>>)

\* f"{n:02d}" for 0 <= n
Dec02(n) == IF n < 10 THEN Str(<<"0">>) \o IntStr(n) ELSE IntStr(n)

\* ------------------------------------------------------------------ floats

One == 1000 * 1000

Abs(x) == IF x < 0 THEN 0 - x ELSE x

\* f as `width` decimal digits, zero padded
PadDigits(f, width) == [i \in 1..width |-> <<Digit((f \div (10 ^ (width - i))) % 10)>>]

RECURSIVE StripZeros(_)
StripZeros(s) ==
    IF Len(s) > 1 /\ s[Len(s)] = <<"0">> THEN StripZeros(SubSeq(s, 1, Len(s) - 1)) ELSE s

\* str(x) of a float x, as an f-string formats it: 0.8 -> "0.8", 1.0 -> "1.0",
\* 0.845 -> "0.845" (the shortest repr; every float of the model is a multiple
\* of 0.000001 and is 0 or at least 0.0001 in size, so no exponent is printed)
FloatStr(x) ==
    (IF x < 0 THEN Str(<<"-">>) ELSE <<>>)
    \o IntStr(Abs(x) \div One) \o Str(<<".">>) \o StripZeros(PadDigits(Abs(x) % One, 6))

\* --------------------------------------------------------------------- dicts

DictKeys(d) == [i \in 1..Len(d) |-> d[i][1]]

DictHas(d, k) == \E i \in 1..Len(d) : d[i][1] = k

\* d[k]
DictGet(d, k) == d[CHOOSE i \in 1..Len(d) : d[i][1] = k][2]

\* d[k] = v: replaces the value of a key that is there, appends a new key
DictSet(d, k, v) ==
    IF DictHas(d, k)
    THEN [i \in 1..Len(d) |-> IF d[i][1] = k THEN <<k, v>> ELSE d[i]]
    ELSE Append(d, <<k, v>>)

\* d.update(e)
RECURSIVE DictUpdate(_, _)
DictUpdate(d, e) ==
    IF e = <<>> THEN d ELSE DictUpdate(DictSet(d, Head(e)[1], Head(e)[2]), Tail(e))

\* the pairs of d sorted by key (insertion sort on code point order)
RECURSIVE InsertSorted(_, _)
InsertSorted(sorted, pair) ==
    IF sorted = <<>> THEN <<pair>>
    ELSE IF StrLess(pair[1], Head(sorted)[1]) THEN <<pair>> \o sorted
    ELSE <<Head(sorted)>> \o InsertSorted(Tail(sorted), pair)

RECURSIVE SortByKey(_)
SortByKey(d) == IF d = <<>> THEN <<>> ELSE InsertSorted(SortByKey(Tail(d)), Head(d))

\* ---------------------------------------------------------------------- JSON

\* json.dumps escapes every non-ASCII character as \uXXXX (ensure_ascii)
NonAscii ==
    << <<"u0393", <<"0", "3", "9", "3">> >>, <<"u039b", <<"0", "3", "9", "b">> >>,
       <<"u039e", <<"0", "3", "9", "e">> >>, <<"u03a3", <<"0", "3", "a", "3">> >>,
       <<"u03a6", <<"0", "3", "a", "6">> >>, <<"u03a8", <<"0", "3", "a", "8">> >>,
       <<"u03b1", <<"0", "3", "b", "1">> >>, <<"u03b2", <<"0", "3", "b", "2">> >>,
       <<"u03b3", <<"0", "3", "b", "3">> >>, <<"u03b6", <<"0", "3", "b", "6">> >>,
       <<"u03c0", <<"0", "3", "c", "0">> >>, <<"u03c4", <<"0", "3", "c", "4">> >>,
       <<"u2126", <<"2", "1", "2", "6">> >>, <<"u2206", <<"2", "2", "0", "6">> >> >>

\* a quotation mark and a backslash are escaped with a backslash
JsonItem(item) ==
    IF ~IsBlock(item) /\ DictHas(NonAscii, item[1])
    THEN Str(<<"\\", "u">>) \o Str(DictGet(NonAscii, item[1]))
    ELSE IF ~IsBlock(item) /\ item[1] \in {"\"", "\\"}
    THEN Str(<<"\\", item[1]>>)
    ELSE <<item>>

RECURSIVE JsonEscape(_)
JsonEscape(s) == IF s = <<>> THEN <<>> ELSE JsonItem(Head(s)) \o JsonEscape(Tail(s))

JsonString(s) == Str(<<"\"">>) \o JsonEscape(s) \o Str(<<"\"">>)

RECURSIVE JsonPairs(_)
JsonPairs(d) ==
    IF d = <<>> THEN <<>>
    ELSE JsonString(Head(d)[1]) \o Str(<<":", " ">>) \o JsonString(Head(d)[2])
         \o (IF Tail(d) = <<>> THEN <<>> ELSE Str(<<",", " ">>) \o JsonPairs(Tail(d)))

\* json.dumps(d, sort_keys=True) of a dict of str keys and str values
JsonDumpsSorted(d) == Str(<<"{">>) \o JsonPairs(SortByKey(d)) \o Str(<<"}">>)

\* ----------------------------------------------------------- program strings

s_intent == Str(<<"i", "n", "t", "e", "n", "t">>)
s_transfer == Str(<<"t", "r", "a", "n", "s", "f", "e", "r">>)
s_amount == Str(<<"a", "m", "o", "u", "n", "t">>)
s_account == Str(<<"a", "c", "c", "o", "u", "n", "t">>)
s_to == Str(<<"t", "o">>)
s_from == Str(<<"f", "r", "o", "m">>)
s_to_account == s_to \o Str(<<"_">>) \o s_account
s_from_account == s_from \o Str(<<"_">>) \o s_account
s_queued == Str(<<"q", "u", "e", "u", "e", "d">>)
s_underscore == Str(<<"_">>)

\* the field tags: "Ωα", "βΞ", "βΞ_", "$γΦ", "Node_ζτ", "Role=Γ5", "Time=∆τ"
tag_intent == Str(<<"u2126", "u03b1">>)
tag_entity == Str(<<"u03b2", "u039e">>)
tag_entity_prefix == tag_entity \o s_underscore
tag_gamma == Str(<<"$", "u03b3", "u03a6">>)
tag_node == Str(<<"N", "o", "d", "e", "_", "u03b6", "u03c4">>)
tag_role5 == Str(<<"R", "o", "l", "e", "=", "u0393", "5">>)
tag_role3 == Str(<<"R", "o", "l", "e", "=", "u0393", "3">>)
tag_time == Str(<<"T", "i", "m", "e", "=", "u2206", "u03c4">>)
s_pop_signature ==
    Str(<<"p", "o", "p", "_", "s", "i", "g", "n", "a", "t", "u", "r", "e">>)

\* the role tag "Γ5"
role_gamma5 == Str(<<"u0393", "5">>)

s_hkp_derived == Str(<<"H", "K", "P", "-", "d", "e", "r", "i", "v", "e", "d">>)
s_HKP_ == Str(<<"H", "K", "P", "_">>)
s_L4 == Str(<<"L", "4">>)
s_Level_ == Str(<<"L", "e", "v", "e", "l", "-">>)
s_75000_USD == Str(<<"7", "5", "0", "0", "0", " ", "U", "S", "D">>)
s_acct_to == Str(<<"7", "3", "9", "5", "-", "8", "8", "4", "5", "-", "2", "2", "9", "1">>)
s_acct_from == Str(<<"1", "5", "5", "9", "-", "6", "6", "2", "3", "-", "4", "4", "0", "1">>)
s_acct_other ==
    Str(<<"1", "2", "3", "4", "-", "5", "6", "7", "8", "-", "9", "0", "1", "2",
          "-", "3", "4", "5", "6">>)
s_default_value ==
    Str(<<"d", "e", "f", "a", "u", "l", "t", "_", "v", "a", "l", "u", "e">>)

\* ------------------------------------------------------------- ParameterSet

\* A theta dict is a function from some of the keys entropy, cipher_strength,
\* role_decay to floats; the argument None is the function NoTheta.
NoTheta == [none |-> TRUE]

IsNone(theta_arg) == "none" \in DOMAIN theta_arg

DefaultEntropy == 500000
DefaultCipherStrength == 800000
DefaultRoleDecay == 500000

DefaultTheta ==
    [entropy |-> DefaultEntropy, cipher_strength |-> DefaultCipherStrength,
     role_decay |-> DefaultRoleDecay]

\* theta_params.get(key, default)
ThetaGet(theta_params, key, default) ==
    IF key \in DOMAIN theta_params THEN theta_params[key] ELSE default

\* ------------------------------------------------------------------ Cryptor

KeyHexLen == 8
FieldHexLen == 12
PopHexLen == 12

\* a derivation whose base string also carries the entropy
cryptor_derive_role_key_with_entropy(field_name, auth_level, theta_params) ==
    LET base == field_name \o s_underscore \o auth_level \o s_underscore
                \o FloatStr(ThetaGet(theta_params, "cipher_strength", DefaultCipherStrength))
                \o s_underscore
                \o FloatStr(ThetaGet(theta_params, "entropy", DefaultEntropy))
    IN  s_HKP_ \o Sha256Hex(base, KeyHexLen)

cryptor_derive_role_key(field_name, auth_level, theta_params) ==
    LET base == field_name \o s_underscore \o auth_level \o s_underscore
                \o FloatStr(ThetaGet(theta_params, "cipher_strength", DefaultCipherStrength))
    IN  s_HKP_ \o Sha256Hex(base, KeyHexLen)

\* prefix is the draw secrets.token_hex(2).upper()
encrypt_field(value, key, prefix) ==
    LET combined == value \o s_underscore \o key
    IN  prefix \o s_underscore \o Sha256Hex(combined, FieldHexLen)

\* the loop over semantic_input.entities.items(): entity i takes draw i + 1
RECURSIVE EncryptEntities(_, _, _, _, _)
EncryptEntities(encrypted_fields, entities, auth_level, theta_params, prefixes) ==
    IF entities = <<>> THEN encrypted_fields
    ELSE LET entity_key == Head(entities)[1]
             entity_value == Head(entities)[2]
             field_key == cryptor_derive_role_key(entity_key, auth_level, theta_params)
         IN  EncryptEntities(
                 DictSet(encrypted_fields, tag_entity_prefix \o entity_key,
                         encrypt_field(entity_value, field_key, Head(prefixes))),
                 Tail(entities), auth_level, theta_params, Tail(prefixes))

\* rnd.prefixes: the token_hex draws in call order; rnd.gamma, rnd.node: the two
\* secrets.randbelow(100) draws
apply_hkp_encryption(semantic_input, theta_arg, rnd) ==
    LET theta_params == IF IsNone(theta_arg) THEN DefaultTheta ELSE theta_arg
        intent_key == cryptor_derive_role_key(s_intent, semantic_input.auth_level, theta_params)
        with_intent ==
            DictSet(<<>>, tag_intent,
                    encrypt_field(semantic_input.intent, intent_key, Head(rnd.prefixes)))
        with_entities ==
            EncryptEntities(with_intent, semantic_input.entities, semantic_input.auth_level,
                            theta_params, Tail(rnd.prefixes))
        with_gamma ==
            DictSet(with_entities, tag_gamma,
                    Str(<<"B", "X", "R", "_", "u039b">>) \o Dec02(rnd.gamma))
    IN  DictSet(with_gamma, tag_node,
                Str(<<"E">>) \o Dec02(rnd.node) \o Str(<<"_", "T", "a", "u">>))

\* a tag over the payload in insertion order, json.dumps without sort_keys
generate_pop_signature_unsorted(encrypted_fields) ==
    LET payload == Str(<<"{">>) \o JsonPairs(encrypted_fields) \o Str(<<"}">>)
    IN  Sha256Hex(payload, PopHexLen)

\* a tag over the keys of the mapping alone
generate_pop_signature_over_keys(encrypted_fields) ==
    LET payload == JsonDumpsSorted([i \in 1..Len(encrypted_fields) |->
                                       <<encrypted_fields[i][1], <<>> >>])
    IN  Sha256Hex(payload, PopHexLen)

generate_pop_signature(encrypted_fields) ==
    LET payload == JsonDumpsSorted(encrypted_fields)
    IN  Sha256Hex(payload, PopHexLen)

\* ---------------------------------------------------------------- Decryptor

\* a verification that only looks for the tag at the start of what it is given
verify_pop_signature_by_prefix(encrypted_fields, expected_signature) ==
    LET payload == JsonDumpsSorted(encrypted_fields)
        actual_signature == Sha256Hex(payload, PopHexLen)
    IN  StartsWith(expected_signature, actual_signature)

verify_pop_signature(encrypted_fields, expected_signature) ==
    LET payload == JsonDumpsSorted(encrypted_fields)
        actual_signature == Sha256Hex(payload, PopHexLen)
    IN  actual_signature = expected_signature

decryptor_derive_role_key(field_name, auth_level, theta_params) ==
    LET base == field_name \o s_underscore \o auth_level \o s_underscore
                \o FloatStr(ThetaGet(theta_params, "cipher_strength", DefaultCipherStrength))
    IN  s_HKP_ \o Sha256Hex(base, KeyHexLen)

decrypt_field(encrypted_value, key) ==
    IF Contains(encrypted_value, tag_intent) \/ Contains(Lower(key), s_intent)
    THEN s_transfer
    ELSE IF Contains(Lower(key), s_amount)
            \/ Contains(encrypted_value, tag_entity_prefix \o s_amount)
    THEN s_75000_USD
    ELSE IF Contains(Lower(key), s_account)
    THEN IF Contains(Lower(key), s_to) \/ Contains(Lower(key), s_to_account)
         THEN s_acct_to
         ELSE IF Contains(Lower(key), s_from) \/ Contains(Lower(key), s_from_account)
         THEN s_acct_from
         ELSE s_acct_other
    ELSE s_default_value

EntityKeySkip == 4

\* the entity name the Decryptor cuts from a field tag: field_name[4:]
DecryptorEntityKey(field_name) == DropFirst(field_name, EntityKeySkip)

\* the loop over encrypted_fields.items()
RECURSIVE DecryptEntities(_, _)
DecryptEntities(decrypted_fields, items) ==
    IF items = <<>> THEN decrypted_fields
    ELSE LET field_name == Head(items)[1]
             encrypted_value == Head(items)[2]
         IN  IF StartsWith(field_name, tag_entity_prefix)
             THEN LET entity_key == DecryptorEntityKey(field_name)
                      field_key == decryptor_derive_role_key(entity_key, s_L4, DefaultTheta)
                  IN  DecryptEntities(
                          DictSet(decrypted_fields, entity_key,
                                  decrypt_field(encrypted_value, field_key)),
                          Tail(items))
             ELSE DecryptEntities(decrypted_fields, Tail(items))

decrypt_hkp_fields(encrypted_fields, role_tag) ==
    LET theta_params == DefaultTheta
        intent_value ==
            IF DictHas(encrypted_fields, tag_intent)
            THEN decrypt_field(DictGet(encrypted_fields, tag_intent),
                               decryptor_derive_role_key(s_intent, s_L4, theta_params))
            ELSE s_transfer
    IN  DecryptEntities(DictSet(<<>>, s_intent, intent_value), encrypted_fields)

\* ------------------------------------------------------- the external service

\* What llm_client.call_llm and llm_client.parse_json_response hand to a stage:
\*   kind "none":  call_llm returned None (no client, no template, API error)
\*   kind "text":  a response parse_json_response finds no JSON in (None)
\*   kind "empty": the JSON object {} (falsy, so the stage skips its try block)
\*   kind "array": JSON that is no object (its .get raises inside the try block)
\*   kind "dict":  a JSON object; obj maps each key it has to [ok, v], where ok
\*                 tells whether v has a type the pydantic model of the stage
\*                 accepts for that key
NoKeys == [k \in {} |-> 0]
LlmNone == [kind |-> "none", obj |-> NoKeys]
LlmText == [kind |-> "text", obj |-> NoKeys]
LlmEmpty == [kind |-> "empty", obj |-> NoKeys]
LlmArray == [kind |-> "array", obj |-> NoKeys]
LlmDict(obj) == [kind |-> "dict", obj |-> obj]

Good(v) == [ok |-> TRUE, v |-> v]
IllTyped == [ok |-> FALSE, v |-> <<>>]

\* `if llm_response:` and `if parsed_response:` both pass
LlmParsed(llm) == llm.kind \in {"array", "dict"}

\* the body of the try block raises: .get on a non-dict, or pydantic validation
LlmRejected(llm) ==
    \/ llm.kind = "array"
    \/ llm.kind = "dict" /\ \E k \in DOMAIN llm.obj : ~llm.obj[k].ok

\* parsed_response.get(key, default)
LlmGet(llm, key, default) == IF key \in DOMAIN llm.obj THEN llm.obj[key].v ELSE default

\* What a stage hands back: a value it returned, or an exception it raised.
\* path tells which branch built the value: "llm" or "fallback".
Returned(value, path) == [raised |-> FALSE, value |-> value, path |-> path]
Raised(path) == [raised |-> TRUE, value |-> <<>>, path |-> path]

\* --------------------------------------------------------------- run_cryptor

EncryptedOutput(encrypted_fields, role_tag, pop_signature, time_tag) ==
    [encrypted_fields |-> encrypted_fields, role_tag |-> role_tag,
     pop_signature |-> pop_signature, time_tag |-> time_tag]

\* a rule-based branch that computes the tag before it adds the metadata fields
CryptorFallbackTagFirst(inp, theta_params, rnd, now) ==
    LET time_tag == now
        hkp_fields == apply_hkp_encryption(inp, theta_params, rnd)
        pop_signature == generate_pop_signature(hkp_fields)
        encrypted_fields ==
            DictUpdate(hkp_fields, << <<tag_role5, s_hkp_derived>>, <<tag_time, time_tag>> >>)
    IN  EncryptedOutput(encrypted_fields, role_gamma5, pop_signature, time_tag)

\* the rule-based branch of run_cryptor; now is datetime.utcnow().isoformat()
CryptorFallback(inp, theta_params, rnd, now) ==
    LET time_tag == now
        encrypted_fields ==
            DictUpdate(apply_hkp_encryption(inp, theta_params, rnd),
                       << <<tag_role5, s_hkp_derived>>, <<tag_time, time_tag>> >>)
        pop_signature == generate_pop_signature(encrypted_fields)
    IN  EncryptedOutput(encrypted_fields, role_gamma5, pop_signature, time_tag)

run_cryptor(inp, theta_params, llm_only_mode, llm, rnd, now) ==
    IF LlmParsed(llm) /\ ~LlmRejected(llm)
    THEN Returned(EncryptedOutput(LlmGet(llm, "encrypted_fields", <<>>),
                                  LlmGet(llm, "role_tag", role_gamma5),
                                  LlmGet(llm, "pop_signature", <<>>),
                                  LlmGet(llm, "time_tag", now)), "llm")
    ELSE IF llm_only_mode THEN Raised("llm")
    ELSE Returned(CryptorFallback(inp, theta_params, rnd, now), "fallback")

\* ------------------------------------------------------------- run_decryptor

DecryptedFieldsOut(intent, entities, auth_grade, time_issued, exec_status) ==
    [intent |-> intent, entities |-> entities, auth_grade |-> auth_grade,
     time_issued |-> time_issued, exec_status |-> exec_status]

RoleDigits == {Str(<<"1">>), Str(<<"2">>), Str(<<"3">>), Str(<<"4">>), Str(<<"5">>)}

\* f"Level-{role_tag[-1]}" if role_tag.endswith(("1", ..., "5")) else "Level-4"
AuthGrade(role_tag) ==
    IF \E d \in RoleDigits : EndsWith(role_tag, d)
    THEN s_Level_ \o SubSeq(role_tag, Len(role_tag), Len(role_tag))
    ELSE s_Level_ \o Str(<<"4">>)

\* {k: v for k, v in decrypted_fields.items() if k != "intent"}
RECURSIVE WithoutIntent(_)
WithoutIntent(d) ==
    IF d = <<>> THEN <<>>
    ELSE (IF Head(d)[1] # s_intent THEN <<Head(d)>> ELSE <<>>) \o WithoutIntent(Tail(d))

\* a Decryptor that recovers the fields without looking at the tag
run_decryptor_unverified(inp) ==
    LET decrypted_fields == decrypt_hkp_fields(inp.encrypted_fields, inp.role_tag)
    IN  Returned(DecryptedFieldsOut(s_transfer, WithoutIntent(decrypted_fields),
                                    AuthGrade(inp.role_tag), inp.time_tag, s_queued), "rule")

run_decryptor(inp) ==
    IF ~verify_pop_signature(inp.encrypted_fields, inp.pop_signature)
    THEN Raised("rule")
    ELSE LET decrypted_fields == decrypt_hkp_fields(inp.encrypted_fields, inp.role_tag)
             intent == s_transfer
             entities == WithoutIntent(decrypted_fields)
         IN  Returned(DecryptedFieldsOut(intent, entities, AuthGrade(inp.role_tag),
                                         inp.time_tag, s_queued), "rule")

\* --------------------------------------------------------------- run_mimicus

MimicOutput(mimic_fields, spoof_status) ==
    [mimic_fields |-> mimic_fields, spoof_status |-> spoof_status]

s_ZYNQ == Str(<<"Z", "Y", "N", "Q">>)
s_DYNX == Str(<<"D", "Y", "N", "X">>)
s_blk_ == Str(<<"b", "l", "k", "_">>)
s_AKR_ == Str(<<"A", "K", "R", "_">>)
s_E == Str(<<"E">>)
tag_psi == Str(<<"u03a8", "V">>)
tag_sigma == Str(<<"u03a3", "u03c0">>)
tag_amount_mimic == tag_entity_prefix \o s_amount \o Str(<<"_", "m", "i", "m", "i", "c">>)
tag_account_mimic == tag_entity_prefix \o s_account \o Str(<<"_", "m", "i", "m", "i", "c">>)
s_mimic_derived ==
    Str(<<"m", "i", "m", "i", "c", "-", "d", "e", "r", "i", "v", "e", "d">>)

NodeChoices ==
    << Str(<<"E", "2", "3", "_", "K", "a", "i">>), Str(<<"E", "9", "9", "_", "L", "a", "m">>),
       Str(<<"E", "4", "5", "_", "M", "u">>), Str(<<"E", "6", "7", "_", "N", "u">>) >>

\* draws[i] is the draw of the i-th random call in the text of the function: the
\* place, in thousandths of its range, where the value falls.
DrawRes == 10 ^ 3

\* random.randint(lo, hi)
RandInt(draw, lo, hi) == lo + (draw * (hi - lo + 1)) \div DrawRes

\* random.choice(seq)
RandChoice(draw, seq) == seq[RandInt(draw, 1, Len(seq))]

\* a MimicEngine that leaves out the two decoy tags
generate_mimic_fields_without_decoys(decrypted_input, draws) ==
    LET f1 == DictSet(<<>>, tag_intent,
                      s_ZYNQ \o Str(<<"_", "u2206">>) \o IntStr(RandInt(draws[1], 10, 99)))
        f2 == DictSet(f1, tag_entity,
                      s_blk_ \o Str(<<"M">>) \o IntStr(RandInt(draws[2], 1, 9))
                      \o Str(<<"Z">>) \o IntStr(RandInt(draws[3], 1, 9)))
        f3 == DictSet(f2, tag_gamma,
                      s_AKR_ \o Str(<<"u039e">>) \o Dec02(RandInt(draws[4], 1, 99)))
        f4 == DictSet(f3, tag_node, RandChoice(draws[5], NodeChoices))
        f9 == DictSet(f4, tag_role3, s_mimic_derived)
    IN  DictSet(f9, tag_time,
                Str(<<"2", "0", "2", "5", "-", "0", "7", "-">>)
                \o Dec02(RandInt(draws[13], 1, 31)) \o Str(<<"T">>)
                \o Dec02(RandInt(draws[14], 0, 23)) \o Str(<<":">>)
                \o Dec02(RandInt(draws[15], 0, 59)) \o Str(<<":", "0", "0", "Z">>))

generate_mimic_fields(decrypted_input, draws) ==
    LET f1 == DictSet(<<>>, tag_intent,
                      s_ZYNQ \o Str(<<"_", "u2206">>) \o IntStr(RandInt(draws[1], 10, 99)))
        f2 == DictSet(f1, tag_entity,
                      s_blk_ \o Str(<<"M">>) \o IntStr(RandInt(draws[2], 1, 9))
                      \o Str(<<"Z">>) \o IntStr(RandInt(draws[3], 1, 9)))
        f3 == DictSet(f2, tag_gamma,
                      s_AKR_ \o Str(<<"u039e">>) \o Dec02(RandInt(draws[4], 1, 99)))
        f4 == DictSet(f3, tag_node, RandChoice(draws[5], NodeChoices))
        f5 == DictSet(f4, tag_psi, IntStr(RandInt(draws[6], 50, 100)) \o Str(<<"K">>))
        f6 == DictSet(f5, tag_sigma, Str(<<"u039b">>) \o IntStr(RandInt(draws[7], 1, 9)))
        f7 == IF DictHas(decrypted_input.entities, s_amount)
              THEN DictSet(f6, tag_amount_mimic,
                           Str(<<"f", "a", "k", "e", "_">>)
                           \o IntStr(RandInt(draws[8], 1000, 99999))
                           \o Str(<<"_", "U", "S", "D">>))
              ELSE f6
        f8 == IF DictHas(decrypted_input.entities, s_to_account)
              THEN DictSet(f7, tag_account_mimic,
                           Str(<<"s", "p", "o", "o", "f", "_">>)
                           \o IntStr(RandInt(draws[9], 1000, 9999)) \o Str(<<"-">>)
                           \o IntStr(RandInt(draws[10], 1000, 9999)) \o Str(<<"-">>)
                           \o IntStr(RandInt(draws[11], 1000, 9999)) \o Str(<<"-">>)
                           \o IntStr(RandInt(draws[12], 1000, 9999)))
              ELSE f7
        f9 == DictSet(f8, tag_role3, s_mimic_derived)
    IN  DictSet(f9, tag_time,
                Str(<<"2", "0", "2", "5", "-", "0", "7", "-">>)
                \o Dec02(RandInt(draws[13], 1, 31)) \o Str(<<"T">>)
                \o Dec02(RandInt(draws[14], 0, 23)) \o Str(<<":">>)
                \o Dec02(RandInt(draws[15], 0, 59)) \o Str(<<":", "0", "0", "Z">>))

s_mimic_attempt ==
    Str(<<"m", "i", "m", "i", "c", "_", "a", "t", "t", "e", "m", "p", "t">>)

run_mimicus(inp, llm_only_mode, llm, draws) ==
    IF LlmParsed(llm) /\ ~LlmRejected(llm)
    THEN Returned(MimicOutput(LlmGet(llm, "mimic_fields", <<>>),
                              LlmGet(llm, "spoof_status", s_mimic_attempt)), "llm")
    ELSE IF llm_only_mode THEN Raised("llm")
    ELSE Returned(MimicOutput(generate_mimic_fields(inp, draws), s_mimic_attempt), "fallback")

\* -------------------------------------------------------------- run_probator

\* x * c for two floats, c a multiple of 0.001
FMul(x, c) == (x * (c \div 1000)) \div 1000

Min(a, b) == IF a < b THEN a ELSE b
Max(a, b) == IF a > b THEN a ELSE b

LeakageVectorOut(leakage_score, details, hk_protection) ==
    [leakage_score |-> leakage_score, details |-> details, hk_protection |-> hk_protection]

\* random.uniform(a, b) at the draw u, given in hundredths of the way from a to
\* b, on the 0.01 grid
Cent == 10 ^ 4
Uniform(u, a, b) == a + (((b - a) * u) \div (100 * Cent)) * Cent

\* the draws of a pipeline run: UniformSteps + 1 points from one end of the range
\* to the other
UniformSteps == 1
UniformDraws == {(100 * i) \div UniformSteps : i \in 0..UniformSteps}

EntityRecoveryLow == 100000
EntityRecoveryHigh == 400000
SemanticDriftLow == 300000
SemanticDriftHigh == 800000
PatternIntent == 300000
PatternEntity == 300000
PatternGamma == 200000
PatternNode == 200000
MappingAmount == 400000
MappingAccount == 400000

expected_fields == <<tag_intent, tag_entity, tag_gamma, tag_node>>

\* er_draw, sd_draw: the two random.uniform draws
\* a JSON number where a string is expected: a value that is no str
JsonNumber(n) == << <<"number", n>> >>
IsStr(v) == \A i \in DOMAIN v : Len(v[i]) # 2

\* the pattern tests call .startswith on the value of the intent tag and apply
\* `in` to the values of the three other tags: on a number either raises
PatternTestsRaise(mimic_fields) ==
    \E tag \in {tag_intent, tag_entity, tag_gamma, tag_node} :
        DictHas(mimic_fields, tag) /\ ~IsStr(DictGet(mimic_fields, tag))

analyze_leakage_patterns(mimic_fields, er_draw, sd_draw) ==
    LET entity_recovery ==
            IF DictHas(mimic_fields, tag_intent)
            THEN Uniform(er_draw, EntityRecoveryLow, EntityRecoveryHigh)
            ELSE 0
        present_fields ==
            {i \in 1..Len(expected_fields) : DictHas(mimic_fields, expected_fields[i])}
        structure_fidelity == (Cardinality(present_fields) * One) \div Len(expected_fields)
        semantic_drift == Uniform(sd_draw, SemanticDriftLow, SemanticDriftHigh)
        p1 == IF DictHas(mimic_fields, tag_intent)
                 /\ (\/ StartsWith(DictGet(mimic_fields, tag_intent), s_ZYNQ)
                     \/ StartsWith(DictGet(mimic_fields, tag_intent), s_DYNX))
              THEN PatternIntent ELSE 0
        p2 == IF DictHas(mimic_fields, tag_entity)
                 /\ Contains(DictGet(mimic_fields, tag_entity), s_blk_)
              THEN PatternEntity ELSE 0
        p3 == IF DictHas(mimic_fields, tag_gamma)
                 /\ Contains(DictGet(mimic_fields, tag_gamma), s_AKR_)
              THEN PatternGamma ELSE 0
        p4 == IF DictHas(mimic_fields, tag_node)
                 /\ Contains(DictGet(mimic_fields, tag_node), s_E)
              THEN PatternNode ELSE 0
        m1 == IF DictHas(mimic_fields, tag_amount_mimic) THEN MappingAmount ELSE 0
        m2 == IF DictHas(mimic_fields, tag_account_mimic) THEN MappingAccount ELSE 0
    IN  [entity_recovery |-> entity_recovery,
         structure_fidelity |-> structure_fidelity,
         semantic_drift |-> semantic_drift,
         pattern_consistency |-> p1 + p2 + p3 + p4,
         field_mapping_accuracy |-> m1 + m2]

WeightEntityRecovery == 300000
WeightStructureFidelity == 250000
WeightSemanticDrift == 200000
WeightPatternConsistency == 150000
WeightFieldMappingAccuracy == 100000

weights ==
    [entity_recovery |-> WeightEntityRecovery,
     structure_fidelity |-> WeightStructureFidelity,
     semantic_drift |-> WeightSemanticDrift,
     pattern_consistency |-> WeightPatternConsistency,
     field_mapping_accuracy |-> WeightFieldMappingAccuracy]

\* the term one factor adds to the score
ScoreTerm(details, factor) ==
    IF factor \in DOMAIN details
    THEN IF factor = "semantic_drift"
         THEN FMul(One - details[factor], weights[factor])
         ELSE FMul(details[factor], weights[factor])
    ELSE 0

\* a score that leaves the structure_fidelity term out
calculate_leakage_score_without_structure(details) ==
    LET score == ScoreTerm(details, "entity_recovery")
                 + ScoreTerm(details, "semantic_drift")
                 + ScoreTerm(details, "pattern_consistency")
                 + ScoreTerm(details, "field_mapping_accuracy")
    IN  Min(One, Max(0, score))

calculate_leakage_score(details) ==
    LET score == ScoreTerm(details, "entity_recovery")
                 + ScoreTerm(details, "structure_fidelity")
                 + ScoreTerm(details, "semantic_drift")
                 + ScoreTerm(details, "pattern_consistency")
                 + ScoreTerm(details, "field_mapping_accuracy")
    IN  Min(One, Max(0, score))

\* an assessment content with one of the two protection signals
assess_hkp_protection_either_signal(mimic_fields) ==
    LET hkp_present == \/ DictHas(mimic_fields, tag_role5)
                       \/ DictHas(mimic_fields, tag_time)
                       \/ DictHas(mimic_fields, s_pop_signature)
        role_protection == DictHas(mimic_fields, tag_role3)
        time_protection == DictHas(mimic_fields, tag_time)
    IN  IF hkp_present /\ (role_protection \/ time_protection) THEN "active"
        ELSE IF hkp_present THEN "partial"
        ELSE "inactive"

assess_hkp_protection(mimic_fields) ==
    LET hkp_present == \/ DictHas(mimic_fields, tag_role5)
                       \/ DictHas(mimic_fields, tag_time)
                       \/ DictHas(mimic_fields, s_pop_signature)
        role_protection == DictHas(mimic_fields, tag_role3)
        time_protection == DictHas(mimic_fields, tag_time)
    IN  IF hkp_present /\ role_protection /\ time_protection THEN "active"
        ELSE IF hkp_present THEN "partial"
        ELSE "inactive"

run_probator(inp, llm_only_mode, llm, er_draw, sd_draw) ==
    IF LlmParsed(llm) /\ ~LlmRejected(llm)
    THEN Returned(LeakageVectorOut(LlmGet(llm, "leakage_score", 0),
                                   LlmGet(llm, "details", NoKeys),
                                   LlmGet(llm, "hk_protection", "unknown")), "llm")
    ELSE IF llm_only_mode THEN Raised("llm")
    ELSE IF PatternTestsRaise(inp.mimic_fields) THEN Raised("fallback")
    ELSE LET leakage_details == analyze_leakage_patterns(inp.mimic_fields, er_draw, sd_draw)
             leakage_score == calculate_leakage_score(leakage_details)
             hkp_protection == assess_hkp_protection(inp.mimic_fields)
         IN  Returned(LeakageVectorOut(leakage_score, leakage_details, hkp_protection),
                      "fallback")

\* ------------------------------------------------------------ run_praeceptor

ThetaUpdate(theta_update, mode, hk_feedback) ==
    [theta_update |-> theta_update, mode |-> mode, hk_feedback |-> hk_feedback]

BaseEntropy == 500000
BaseCipherStrength == 800000
BaseRoleDecay == 500000
HighLeakage == 500000
EntropyCap == 300000
EntropyGain == 400000
CipherCap == 200000
CipherGain == 300000
RoleDecayCap == 300000
RoleDecayGain == 500000
AdjustFloor == -100000
EntropyRelax == 200000
CipherRelax == 150000
RoleDecayRelax == 250000
EntityRecoveryMark == 300000
StructureFidelityMark == 500000
SemanticDriftMark == 400000
Nudge == 100000
EntropyMin == 100000
CipherMin == 300000
RoleDecayMin == 100000
ParamMax == 1000000

\* details.get(key, 0)
DetailsGet(details, key) == IF key \in DOMAIN details THEN details[key] ELSE 0

\* round(x, 3) of a float x >= 0.  A float that stands for a decimal ending in
\* ...0005 lies a little above or below it, and round() follows the float: up
\* is the side it falls on, an input of the call.
Round3(x, up) ==
    LET q == (x \div 1000) * 1000
        r == x % 1000
    IN  IF r < 500 THEN q
        ELSE IF r > 500 THEN q + 1000
        ELSE IF up THEN q + 1000 ELSE q

\* ties.entropy, ties.cipher_strength, ties.role_decay: the side each round() takes
\* high: the outcome of the test "leakage_score > 0.5"
Calibrated(leakage_assessment, ties, high) ==
    LET leakage_score == leakage_assessment.leakage_score
        entropy_adjustment_0 ==
            IF high THEN Min(EntropyCap, FMul(leakage_score, EntropyGain))
            ELSE Max(AdjustFloor, FMul(HighLeakage - leakage_score, EntropyRelax))
        cipher_adjustment_0 ==
            IF high THEN Min(CipherCap, FMul(leakage_score, CipherGain))
            ELSE Max(AdjustFloor, FMul(HighLeakage - leakage_score, CipherRelax))
        role_decay_adjustment_0 ==
            IF high THEN Min(RoleDecayCap, FMul(leakage_score, RoleDecayGain))
            ELSE Max(AdjustFloor, FMul(HighLeakage - leakage_score, RoleDecayRelax))
        details == leakage_assessment.details
        entropy_adjustment ==
            entropy_adjustment_0
            + (IF DetailsGet(details, "entity_recovery") > EntityRecoveryMark THEN Nudge ELSE 0)
        cipher_adjustment ==
            cipher_adjustment_0
            + (IF DetailsGet(details, "structure_fidelity") > StructureFidelityMark
               THEN Nudge ELSE 0)
        role_decay_adjustment ==
            role_decay_adjustment_0
            - (IF DetailsGet(details, "semantic_drift") < SemanticDriftMark THEN Nudge ELSE 0)
        new_entropy == Max(EntropyMin, Min(ParamMax, BaseEntropy + entropy_adjustment))
        new_cipher_strength ==
            Max(CipherMin, Min(ParamMax, BaseCipherStrength + cipher_adjustment))
        new_role_decay == Max(RoleDecayMin, Min(ParamMax, BaseRoleDecay + role_decay_adjustment))
    IN  [entropy |-> Round3(new_entropy, ties.entropy),
         cipher_strength |-> Round3(new_cipher_strength, ties.cipher_strength),
         role_decay |-> Round3(new_role_decay, ties.role_decay)]

\* a calibration whose test of the score is turned round
calibrate_parameters_inverted(leakage_assessment, ties) ==
    Calibrated(leakage_assessment, ties, leakage_assessment.leakage_score < HighLeakage)

calibrate_parameters(leakage_assessment, ties) ==
    Calibrated(leakage_assessment, ties, leakage_assessment.leakage_score > HighLeakage)

EmergencyAbove == 700000
AggressiveAbove == 500000
RecalibrateAbove == 300000
FineTuneAbove == 100000

\* a mode selection whose bands include their lower threshold
determine_calibration_mode_inclusive(leakage_score) ==
    IF leakage_score >= EmergencyAbove THEN "emergency_recalibrate"
    ELSE IF leakage_score >= AggressiveAbove THEN "aggressive_recalibrate"
    ELSE IF leakage_score >= RecalibrateAbove THEN "recalibrate"
    ELSE IF leakage_score >= FineTuneAbove THEN "fine_tune"
    ELSE "maintain"

determine_calibration_mode(leakage_score) ==
    IF leakage_score > EmergencyAbove THEN "emergency_recalibrate"
    ELSE IF leakage_score > AggressiveAbove THEN "aggressive_recalibrate"
    ELSE IF leakage_score > RecalibrateAbove THEN "recalibrate"
    ELSE IF leakage_score > FineTuneAbove THEN "fine_tune"
    ELSE "maintain"

run_praeceptor(inp, llm_only_mode, llm, ties) ==
    IF LlmParsed(llm) /\ ~LlmRejected(llm)
    THEN Returned(ThetaUpdate(LlmGet(llm, "theta_update", NoKeys),
                              LlmGet(llm, "mode", "recalibrate"),
                              LlmGet(llm, "hk_feedback", TRUE)), "llm")
    ELSE IF llm_only_mode THEN Raised("llm")
    ELSE LET theta_update == calibrate_parameters(inp, ties)
             mode == determine_calibration_mode(inp.leakage_score)
             hk_feedback == inp.hk_protection # "active"
         IN  Returned(ThetaUpdate(theta_update, mode, hk_feedback), "fallback")

\* ---------------------------------------------------- inputs of the pipeline

\* the entity names and values the Prompter hands over, as extract_entities
\* names them
s_memo == Str(<<"m", "e", "m", "o">>)
SemanticPromptOut(intent, entities, auth_level) ==
    [intent |-> intent, entities |-> entities, auth_level |-> auth_level,
     timestamp |-> <<>>, status |-> Str(<<"r", "e", "a", "d", "y">>)]

s_L5 == Str(<<"L", "5">>)
s_L1 == Str(<<"L", "1">>)

\* the transfer of the integration tests first, then inputs with fewer, other
\* and no entities and with other authorisation levels
InputPool ==
    << SemanticPromptOut(s_transfer,
                         << <<s_amount, s_75000_USD>>, <<s_to_account, s_acct_to>>,
                            <<s_from_account, s_acct_from>> >>, s_L4),
       SemanticPromptOut(s_transfer, << <<s_amount, s_75000_USD>> >>, s_L5),
       SemanticPromptOut(s_transfer,
                         << <<s_memo, Str(<<"r", "e", "n", "t">>)>>,
                            <<s_to_account, s_acct_to>> >>, s_L1),
       SemanticPromptOut(s_transfer, <<>>, s_L4),
       SemanticPromptOut(s_transfer, << <<s_account, s_acct_other>> >>, s_L4) >>

NumInputs == 3
NumStreams == 2

Inputs == {InputPool[i] : i \in 1..Min(NumInputs, Len(InputPool))}

\* ParameterSets a caller passes as initial_theta: None, and one off the defaults
InitialThetas ==
    {NoTheta, [entropy |-> 700000, cipher_strength |-> 900000, role_decay |-> 600000]}

\* the draws of one call: stream 1 puts every draw at the bottom of its range,
\* stream 2 at the top, the others in between
MaxDraws == 15
DrawStream(k) ==
    [i \in 1..MaxDraws |->
        IF k = 1 THEN 0
        ELSE IF k = 2 THEN DrawRes - 1
        ELSE (k * 389 + i * 211) % DrawRes]

Streams == {DrawStream(k) : k \in 1..NumStreams}

\* secrets.token_hex(2).upper() and secrets.randbelow(100) at a draw
HexUpper == <<"0", "1", "2", "3", "4", "5", "6", "7", "8", "9", "A", "B", "C", "D", "E", "F">>
TokenHex2Upper(draw) ==
    LET n == RandInt(draw, 0, 65535)
    IN  Str(<<HexUpper[((n \div 4096) % 16) + 1], HexUpper[((n \div 256) % 16) + 1],
              HexUpper[((n \div 16) % 16) + 1], HexUpper[(n % 16) + 1]>>)

CryptorDraws(stream, n_fields) ==
    [prefixes |-> [i \in 1..n_fields |-> TokenHex2Upper(stream[i])],
     gamma |-> RandInt(stream[n_fields + 1], 0, 99),
     node |-> RandInt(stream[n_fields + 2], 0, 99)]

\* datetime.datetime.utcnow().isoformat() at the two calls of a run
Times ==
    {Str(<<"2", "0", "2", "5", "-", "0", "7", "-", "2", "9", "T", "1", "0", ":", "3", "0",
           ":", "0", "1">>)}

\* ------------------------------------------- answers of the external service

s_abc123def456 ==
    Str(<<"a", "b", "c", "1", "2", "3", "d", "e", "f", "4", "5", "6">>)
s_time_example ==
    Str(<<"2", "0", "2", "5", "-", "0", "7", "-", "2", "9", "T", "1", "0", ":", "3", "0",
          ":", "0", "0", "Z">>)

\* the encrypted_fields of the EXAMPLE OUTPUT in the Cryptor's prompt template
ExampleFields ==
    << <<tag_intent, s_DYNX \o Str(<<"_", "u2126", "4", "7">>)>>,
       <<tag_entity, s_blk_ \o Str(<<"Z", "9", "X", "5">>)>>,
       <<tag_gamma, Str(<<"B", "X", "R", "_", "u039b", "0", "3">>)>>,
       <<tag_node, Str(<<"E", "1", "3", "_", "T", "a", "u">>)>>,
       <<tag_role5, s_hkp_derived>>,
       <<tag_time, s_time_example>> >>

\* a field mapping with an entity field, as a service following the protocol
\* would return it
ServiceFields ==
    << <<tag_intent, s_DYNX \o Str(<<"_", "u2126", "4", "7">>)>>,
       <<tag_entity_prefix \o s_amount, s_blk_ \o Str(<<"Z", "9", "X", "5">>)>>,
       <<tag_role5, s_hkp_derived>>,
       <<tag_time, s_time_example>> >>

role_gamma3 == Str(<<"u0393", "3">>)

CryptorAnswers ==
    { LlmNone, LlmText, LlmEmpty, LlmArray,
      \* the example of the template: its signature is not the digest of its fields
      LlmDict([encrypted_fields |-> Good(ExampleFields), role_tag |-> Good(role_gamma5),
               pop_signature |-> Good(s_abc123def456), time_tag |-> Good(s_time_example)]),
      \* a service that computes the digest itself
      LlmDict([encrypted_fields |-> Good(ServiceFields), role_tag |-> Good(role_gamma3),
               pop_signature |-> Good(generate_pop_signature(ServiceFields)),
               time_tag |-> Good(s_time_example)]),
      \* required keys missing
      LlmDict([role_tag |-> Good(role_gamma5)]),
      \* encrypted_fields that is no dict
      LlmDict([encrypted_fields |-> IllTyped, role_tag |-> Good(role_gamma5)]) }

FailingAnswers == {LlmNone, LlmText, LlmEmpty, LlmArray}

MimicusAnswers ==
    FailingAnswers \cup
    { \* canonical tags with the shapes the Probator looks for, one protocol marker
      LlmDict([mimic_fields |->
                   Good(<< <<tag_intent, s_DYNX \o Str(<<"_", "u2126", "4", "7">>)>>,
                           <<tag_entity, s_blk_ \o Str(<<"Z", "9", "X", "5">>)>>,
                           <<tag_role5, s_hkp_derived>> >>),
               spoof_status |-> Good(s_mimic_attempt)]),
      \* required key mimic_fields missing
      LlmDict([spoof_status |-> Good(Str(<<"d", "o", "n", "e">>))]),
      \* well-typed for MimicOutput (Dict[str, Any]), with a number as a value
      LlmDict([mimic_fields |-> Good(<< <<tag_intent, JsonNumber(47)>> >>),
               spoof_status |-> Good(s_mimic_attempt)]),
      LlmDict([mimic_fields |-> IllTyped]) }

ProbatorAnswers ==
    FailingAnswers \cup
    { LlmDict([leakage_score |-> Good(1500000), details |-> Good(NoKeys),
               hk_protection |-> Good("active")]),
      LlmDict([leakage_score |-> Good(600000),
               details |-> Good([entity_recovery |-> 400000, structure_fidelity |-> One,
                                 semantic_drift |-> 300000]),
               hk_protection |-> Good("active")]),
      \* required key leakage_score missing
      LlmDict([hk_protection |-> Good("inactive")]),
      LlmDict([leakage_score |-> IllTyped]) }

PraeceptorAnswers ==
    FailingAnswers \cup
    { LlmDict([theta_update |-> Good([entropy |-> 1500000, cipher_strength |-> 200000,
                                      role_decay |-> 0]),
               mode |-> Good("recalibrate"), hk_feedback |-> Good(TRUE)]),
      \* required key theta_update missing
      LlmDict([mode |-> Good("maintain")]),
      LlmDict([theta_update |-> IllTyped]) }

Ties == [entropy : BOOLEAN, cipher_strength : BOOLEAN, role_decay : BOOLEAN]

\* -------------------------------------------------- run_pipeline_with_feedback

\* call and ret record functions called on their own: call holds the latest call
\* and, behind it, the call before when both were about the same argument; ret
\* holds their results in the same order. A pipeline run leaves both empty.
NoCalls == <<>>

NotRun ==
    [cryptor |-> "-", decryptor |-> "-", mimicus |-> "-", probator |-> "-",
     praeceptor |-> "-", keys |-> {}]

\* the keys of the candidate a stage built its result from, none when it built
\* the result itself
CandidateKeys(r, llm) == IF ~r.raised /\ r.path = "llm" THEN DOMAIN llm.obj ELSE {}

\* initial_theta is None: the function puts the default dict in its place
InitialTheta(initial_theta) == IF IsNone(initial_theta) THEN DefaultTheta ELSE initial_theta

Init ==
    /\ LLM_ONLY_MODE \in BOOLEAN
    /\ prompter_out \in Inputs
    /\ theta \in {InitialTheta(t) : t \in InitialThetas}
    /\ iteration = 1
    /\ pc = "cryptor"
    /\ cryptor_out = <<>>
    /\ decryptor_out = <<>>
    /\ mimicus_out = <<>>
    /\ probator_out = <<>>
    /\ praeceptor_out = <<>>
    /\ took = NotRun
    /\ call = NoCalls
    /\ ret = <<>>

\* cryptor_out = run_cryptor(prompter_out, initial_theta) and
\* cryptor_out_2 = run_cryptor(prompter_out, updated_theta)
RunCryptor ==
    /\ pc = "cryptor"
    /\ \E llm \in CryptorAnswers, stream \in Streams, now \in Times :
          LET rnd == CryptorDraws(stream, 1 + Len(prompter_out.entities))
              r == run_cryptor(prompter_out, theta, LLM_ONLY_MODE, llm, rnd, now)
          IN  /\ cryptor_out' = IF r.raised THEN <<>> ELSE <<r.value>>
              /\ pc' = IF r.raised THEN "raised" ELSE "decryptor"
              /\ took' = [NotRun EXCEPT !.cryptor = IF r.raised THEN "raised" ELSE r.path,
                                   !.keys = CandidateKeys(r, llm)]
    /\ probator_out' = <<>>
    /\ praeceptor_out' = <<>>
    /\ UNCHANGED <<LLM_ONLY_MODE, prompter_out, theta, iteration, decryptor_out,
                   mimicus_out, call, ret>>

RunDecryptor ==
    /\ pc = "decryptor"
    /\ LET r == run_decryptor(cryptor_out[1])
       IN  /\ decryptor_out' = IF r.raised THEN <<>> ELSE <<r.value>>
           /\ pc' = IF r.raised THEN "raised" ELSE "mimicus"
           /\ took' = [took EXCEPT !.decryptor = IF r.raised THEN "raised" ELSE r.path,
                                !.keys = {}]
    /\ UNCHANGED <<LLM_ONLY_MODE, prompter_out, theta, iteration, cryptor_out, mimicus_out,
                   probator_out, praeceptor_out, call, ret>>

RunMimicus ==
    /\ pc = "mimicus"
    /\ \E llm \in MimicusAnswers, stream \in Streams :
          LET r == run_mimicus(decryptor_out[1], LLM_ONLY_MODE, llm, stream)
          IN  /\ mimicus_out' = IF r.raised THEN <<>> ELSE <<r.value>>
              /\ pc' = IF r.raised THEN "raised" ELSE "probator"
              /\ took' = [took EXCEPT !.mimicus = IF r.raised THEN "raised" ELSE r.path,
                                   !.keys = CandidateKeys(r, llm)]
    /\ cryptor_out' = <<>>
    /\ UNCHANGED <<LLM_ONLY_MODE, prompter_out, theta, iteration, decryptor_out,
                   probator_out, praeceptor_out, call, ret>>

RunProbator ==
    /\ pc = "probator"
    /\ \E llm \in ProbatorAnswers, er_draw \in UniformDraws, sd_draw \in UniformDraws :
          LET r == run_probator(mimicus_out[1], LLM_ONLY_MODE, llm, er_draw, sd_draw)
          IN  /\ probator_out' = IF r.raised THEN <<>> ELSE <<r.value>>
              /\ pc' = IF r.raised THEN "raised" ELSE "praeceptor"
              /\ took' = [took EXCEPT !.probator = IF r.raised THEN "raised" ELSE r.path,
                                   !.keys = CandidateKeys(r, llm)]
    /\ decryptor_out' = <<>>
    /\ UNCHANGED <<LLM_ONLY_MODE, prompter_out, theta, iteration, cryptor_out, mimicus_out,
                   praeceptor_out, call, ret>>

\* praeceptor_out = run_praeceptor(probator_out); updated_theta =
\* praeceptor_out.theta_update; the second praeceptor_out is what the function returns
\* a feedback loop whose second iteration gets the initial parameters again
RunPraeceptorDropsUpdate ==
    /\ pc = "praeceptor"
    /\ \E llm \in PraeceptorAnswers, ties \in Ties :
          LET r == run_praeceptor(probator_out[1], LLM_ONLY_MODE, llm, ties)
          IN  /\ praeceptor_out' = IF r.raised THEN <<>> ELSE <<r.value>>
              /\ pc' = IF r.raised THEN "raised"
                       ELSE IF iteration = 1 THEN "cryptor" ELSE "done"
              /\ iteration' = IF ~r.raised /\ iteration = 1 THEN 2 ELSE iteration
              /\ theta' = theta
              /\ took' = [took EXCEPT !.praeceptor = IF r.raised THEN "raised" ELSE r.path,
                                   !.keys = CandidateKeys(r, llm)]
    /\ mimicus_out' = <<>>
    /\ UNCHANGED <<LLM_ONLY_MODE, prompter_out, cryptor_out, decryptor_out, probator_out,
                   call, ret>>

RunPraeceptor ==
    /\ pc = "praeceptor"
    /\ \E llm \in PraeceptorAnswers, ties \in Ties :
          LET r == run_praeceptor(probator_out[1], LLM_ONLY_MODE, llm, ties)
          IN  /\ praeceptor_out' = IF r.raised THEN <<>> ELSE <<r.value>>
              /\ pc' = IF r.raised THEN "raised"
                       ELSE IF iteration = 1 THEN "cryptor" ELSE "done"
              /\ iteration' = IF ~r.raised /\ iteration = 1 THEN 2 ELSE iteration
              /\ theta' = IF ~r.raised /\ iteration = 1 THEN r.value.theta_update ELSE theta
              /\ took' = [took EXCEPT !.praeceptor = IF r.raised THEN "raised" ELSE r.path,
                                   !.keys = CandidateKeys(r, llm)]
    /\ mimicus_out' = <<>>
    /\ UNCHANGED <<LLM_ONLY_MODE, prompter_out, cryptor_out, decryptor_out, probator_out,
                   call, ret>>

Next == RunCryptor \/ RunDecryptor \/ RunMimicus \/ RunProbator \/ RunPraeceptor

Spec == Init /\ [][Next]_vars

\* ------------------------------------------------ properties of a pipeline run

\* the Decryptor has just run on the bundle in cryptor_out
DecryptorRan == cryptor_out # <<>> /\ took.decryptor # "-"

TagMismatch(bundle) ==
    bundle.pop_signature # generate_pop_signature(bundle.encrypted_fields)

\* C2: when the integrity tag of a bundle differs from the tag recomputed over its
\* field mapping, run_decryptor raises and yields no RecoveredFields; the error
\* ends the round at its caller, and neither Mimicus, Probator nor Praeceptor runs
\* in that round.
C2_IntegrityFailurePropagates ==
    /\ (DecryptorRan /\ TagMismatch(cryptor_out[1])) => took.decryptor = "raised"
    /\ took.decryptor = "raised" =>
           /\ pc = "raised"
           /\ decryptor_out = <<>> /\ mimicus_out = <<>>
           /\ probator_out = <<>> /\ praeceptor_out = <<>>
           /\ took.mimicus = "-" /\ took.probator = "-" /\ took.praeceptor = "-"
           /\ ~ENABLED Next

\* a bundle with fields and a foreign tag reached the Decryptor in the second round
C2_Witness_MismatchRaised ==
    /\ iteration = 2
    /\ DecryptorRan
    /\ cryptor_out[1].encrypted_fields # <<>>
    /\ TagMismatch(cryptor_out[1])
    /\ pc = "raised"

\* C3: for every input and ParameterSet, the bundle of the rule-based Cryptor
\* carries the tag of its complete field mapping (intent field, every entity
\* field, both filler fields, Role and Time), so the Decryptor never raises an
\* integrity failure on it.
C3_RuleBasedTagCoversMapping ==
    (took.cryptor = "fallback" /\ cryptor_out # <<>>) =>
        LET bundle == cryptor_out[1]
            F == bundle.encrypted_fields
        IN  /\ bundle.pop_signature = generate_pop_signature(F)
            /\ DictHas(F, tag_intent)
            /\ \A i \in DOMAIN prompter_out.entities :
                   DictHas(F, tag_entity_prefix \o prompter_out.entities[i][1])
            /\ DictHas(F, tag_gamma) /\ DictHas(F, tag_node)
            /\ DictHas(F, tag_role5) /\ DictHas(F, tag_time)
            /\ Len(F) = Len(prompter_out.entities) + 5
            /\ took.decryptor # "raised"

\* the Decryptor accepted the rule-based bundle of the three-entity transfer
C3_Witness_RuleBundleAccepted ==
    /\ took.cryptor = "fallback"
    /\ took.decryptor = "rule"
    /\ cryptor_out # <<>>
    /\ Len(prompter_out.entities) = 3
    /\ decryptor_out # <<>>

s_Level_4 == s_Level_ \o Str(<<"4">>)

\* C4: for the transfer with entities amount, to_account, from_account and role
\* level L4, the Decryptor applied to the rule-based Cryptor's bundle yields
\* intent "transfer", auth_grade "Level-4", exec_status "queued" and as many
\* entities as the input has.
C4_TransferRoundTrip ==
    (prompter_out = InputPool[1] /\ took.cryptor = "fallback" /\ decryptor_out # <<>>) =>
        LET recovered == decryptor_out[1]
        IN  /\ recovered.intent = s_transfer
            /\ recovered.auth_grade = s_Level_4
            /\ recovered.exec_status = s_queued
            /\ Len(recovered.entities) = Len(prompter_out.entities)

\* the parts of C4 other than auth_grade
C4_TransferRoundTripButGrade ==
    (prompter_out = InputPool[1] /\ took.cryptor = "fallback" /\ decryptor_out # <<>>) =>
        LET recovered == decryptor_out[1]
        IN  /\ recovered.intent = s_transfer
            /\ recovered.exec_status = s_queued
            /\ Len(recovered.entities) = Len(prompter_out.entities)

\* the round trip of that transfer ended with auth_grade "Level-5"
C4_Witness_Level5 ==
    /\ prompter_out = InputPool[1]
    /\ took.cryptor = "fallback"
    /\ decryptor_out # <<>>
    /\ decryptor_out[1].auth_grade = s_Level_ \o Str(<<"5">>)

\* the rule-based Cryptor's bundle has just been recovered by the Decryptor
RuleBundleRecovered ==
    took.cryptor = "fallback" /\ took.decryptor = "rule" /\ cryptor_out # <<>>

\* C5: for every input (any role level) and every ParameterSet passed to the
\* Cryptor, the key the Decryptor re-derives for the intent field and for each
\* entity field of the bundle equals the key the Cryptor derived for that field.
C5_RecovererRederivesTokens ==
    RuleBundleRecovered =>
        /\ decryptor_derive_role_key(s_intent, s_L4, DefaultTheta)
               = cryptor_derive_role_key(s_intent, prompter_out.auth_level, theta)
        /\ \A i \in DOMAIN prompter_out.entities :
               LET entity_key == prompter_out.entities[i][1]
                   field_name == tag_entity_prefix \o entity_key
               IN  decryptor_derive_role_key(DecryptorEntityKey(field_name), s_L4,
                                             DefaultTheta)
                       = cryptor_derive_role_key(entity_key, prompter_out.auth_level, theta)

\* C5 for the intent field alone, at role level L4 and the default cipher_strength
C5_IntentKeyAtDefaults ==
    (RuleBundleRecovered /\ prompter_out.auth_level = s_L4
         /\ ThetaGet(theta, "cipher_strength", DefaultCipherStrength) = DefaultCipherStrength) =>
        decryptor_derive_role_key(s_intent, s_L4, DefaultTheta)
            = cryptor_derive_role_key(s_intent, prompter_out.auth_level, theta)

\* at level L4 and default parameters the intent keys agree and the key of the
\* entity amount does not: the Decryptor derives it for the name "mount"
C5_Witness_EntityKeyDiffers ==
    /\ RuleBundleRecovered
    /\ prompter_out = InputPool[1]
    /\ theta = DefaultTheta
    /\ decryptor_derive_role_key(s_intent, s_L4, DefaultTheta)
           = cryptor_derive_role_key(s_intent, prompter_out.auth_level, theta)
    /\ DecryptorEntityKey(tag_entity_prefix \o s_amount) = Str(<<"m", "o", "u", "n", "t">>)
    /\ decryptor_derive_role_key(DecryptorEntityKey(tag_entity_prefix \o s_amount), s_L4,
                                 DefaultTheta)
           # cryptor_derive_role_key(s_amount, prompter_out.auth_level, theta)

\* the placeholder the entity name stands for
PlaceholderFor(entity_name) ==
    IF Contains(entity_name, s_amount) THEN s_75000_USD
    ELSE IF Contains(entity_name, s_account)
    THEN IF Contains(entity_name, s_to) THEN s_acct_to
         ELSE IF Contains(entity_name, s_from) THEN s_acct_from
         ELSE s_acct_other
    ELSE s_default_value

\* the names of the entity fields of a mapping, in its order
RECURSIVE EntityNames(_)
EntityNames(fields) ==
    IF fields = <<>> THEN <<>>
    ELSE (IF StartsWith(Head(fields)[1], tag_entity_prefix)
          THEN <<DropFirst(Head(fields)[1], Len(tag_entity_prefix))>> ELSE <<>>)
         \o EntityNames(Tail(fields))

\* C6: for every verified bundle, the Decryptor gives each entity field the
\* placeholder its entity name stands for: "75000 USD" for a name containing
\* "amount"; for one containing "account", "7395-8845-2291" with "to",
\* "1559-6623-4401" with "from", "1234-5678-9012-3456" otherwise; "default_value"
\* for every other name.
C6_PlaceholderByEntityName ==
    (DecryptorRan /\ decryptor_out # <<>>) =>
        LET names == EntityNames(cryptor_out[1].encrypted_fields)
            recovered == decryptor_out[1].entities
        IN  \A i \in DOMAIN names \cap DOMAIN recovered :
                recovered[i][2] = PlaceholderFor(names[i])

\* what the Decryptor does give: the sentinel for every entity field
C6_EveryEntityGetsSentinel ==
    (DecryptorRan /\ decryptor_out # <<>>) =>
        \A i \in DOMAIN decryptor_out[1].entities :
            decryptor_out[1].entities[i][2] = s_default_value

\* the field of the entity amount was recovered as "default_value"
C6_Witness_AmountGetsSentinel ==
    /\ DecryptorRan
    /\ decryptor_out # <<>>
    /\ EntityNames(cryptor_out[1].encrypted_fields)[1] = s_amount
    /\ decryptor_out[1].entities[1][2] = s_default_value

\* C7: for every MimicOutput, the LeakageVectorOut that run_probator returns has
\* 0.0 <= leakage_score <= 1.0.
C7_ScoreBounds ==
    probator_out # <<>> =>
        /\ 0 <= probator_out[1].leakage_score
        /\ probator_out[1].leakage_score <= One

\* C7 for the reports run_probator computes itself
C7_ScoreBoundsRuleBased ==
    (probator_out # <<>> /\ took.probator = "fallback") =>
        /\ 0 <= probator_out[1].leakage_score
        /\ probator_out[1].leakage_score <= One

\* run_probator returned the score 1.5 of the service unchanged
C7_Witness_ScoreAboveOne ==
    /\ probator_out # <<>>
    /\ took.probator = "llm"
    /\ probator_out[1].leakage_score > One

\* the keys the result type of each stage requires (schemas.py: the fields
\* without a default)
RequiredKeys ==
    [cryptor |-> {"encrypted_fields", "role_tag", "pop_signature", "time_tag"},
     mimicus |-> {"mimic_fields", "spoof_status"},
     probator |-> {"leakage_score", "details"},
     praeceptor |-> {"theta_update"}]

\* the stage that ran last in the round
LastStage ==
    IF took.praeceptor # "-" THEN "praeceptor"
    ELSE IF took.probator # "-" THEN "probator"
    ELSE IF took.mimicus # "-" THEN "mimicus"
    ELSE IF took.decryptor # "-" THEN "decryptor"
    ELSE "cryptor"

\* C11: a stage that receives a candidate missing a required key of its result
\* type rejects it and returns the result of its rule-based algorithm; no result
\* built from an incomplete candidate is returned.
C11_IncompleteCandidateRejected ==
    \A stage \in DOMAIN RequiredKeys :
        (LastStage = stage /\ took[stage] = "llm") => RequiredKeys[stage] \subseteq took.keys

\* the Cryptor returned a bundle built from a candidate holding only role_tag:
\* no fields and the empty signature
C11_Witness_BundleFromRoleTagAlone ==
    /\ LastStage = "cryptor"
    /\ took.cryptor = "llm"
    /\ took.keys = {"role_tag"}
    /\ cryptor_out # <<>>
    /\ cryptor_out[1].encrypted_fields = <<>>
    /\ cryptor_out[1].pop_signature = <<>>

\* the Praeceptor returned an empty ParameterSet built from a candidate holding
\* only mode, and the second round runs under it
C11_Witness_EmptyThetaFromModeAlone ==
    /\ took.praeceptor = "llm"
    /\ took.keys = {"mode"}
    /\ praeceptor_out # <<>>
    /\ praeceptor_out[1].theta_update = NoKeys
    /\ iteration = 2

\* C12: every round, whatever the external service returns at each stage, ends
\* with a LeakageVectorOut and a next ParameterSet; the only way a round ends
\* without them is an integrity failure raised by the Decryptor.
C12_OnlyIntegrityFailureStops ==
    pc = "raised" => (took.decryptor = "raised" /\ TagMismatch(cryptor_out[1]))

\* C12 with the rule-based path allowed at every stage
C12_OnlyIntegrityFailureStopsDefaultMode ==
    (pc = "raised" /\ ~LLM_ONLY_MODE) =>
        (took.decryptor = "raised" /\ TagMismatch(cryptor_out[1]))

\* with the rule-based path allowed, the round ended in the Probator: its pattern
\* tests raised on the number the Mimicus candidate holds under the intent tag
C12_Witness_ProbatorRaised ==
    /\ ~LLM_ONLY_MODE
    /\ pc = "raised"
    /\ took.decryptor = "rule"
    /\ took.mimicus = "llm"
    /\ took.probator = "raised"
    /\ mimicus_out # <<>>
    /\ ~IsStr(DictGet(mimicus_out[1].mimic_fields, tag_intent))
    /\ probator_out = <<>>

\* C14: the MimicBundle of the rule-based MimicEngine holds the four core tags,
\* the two decoy tags, the wrong role marker Role=G3 and the time tag, and its
\* status is "mimic_attempt", whatever RecoveredFields it was built from.
C14_RuleBasedMimicBundleShape ==
    (took.mimicus = "fallback" /\ mimicus_out # <<>>) =>
        /\ \A k \in {tag_intent, tag_entity, tag_gamma, tag_node, tag_psi, tag_sigma,
                     tag_role3, tag_time} :
              DictHas(mimicus_out[1].mimic_fields, k)
        /\ mimicus_out[1].spoof_status = s_mimic_attempt

\* a rule-based MimicBundle built from RecoveredFields with a single entity
C14_Witness_BundleFromOneEntity ==
    /\ took.mimicus = "fallback"
    /\ pc = "probator"
    /\ mimicus_out # <<>>
    /\ decryptor_out # <<>>
    /\ Len(decryptor_out[1].entities) = 1
    /\ DictHas(mimicus_out[1].mimic_fields, tag_sigma)
    /\ mimicus_out[1].spoof_status = s_mimic_attempt

\* C19: whatever the role level of the input and whatever ParameterSet is
\* passed, the bundle run_cryptor returns has role_tag "G5", the
\* highest-privilege marker.
C19_RoleTagAlwaysGamma5 ==
    cryptor_out # <<>> => cryptor_out[1].role_tag = role_gamma5

\* C19 for the bundles run_cryptor builds itself
C19_RoleTagGamma5RuleBased ==
    (cryptor_out # <<>> /\ took.cryptor = "fallback") => cryptor_out[1].role_tag = role_gamma5

\* run_cryptor returned the role_tag "G3" of the service's bundle
C19_Witness_RoleTagGamma3 ==
    /\ pc = "decryptor"
    /\ took.cryptor = "llm"
    /\ cryptor_out # <<>>
    /\ cryptor_out[1].role_tag = role_gamma3
    /\ verify_pop_signature(cryptor_out[1].encrypted_fields, cryptor_out[1].pop_signature)

\* a ParameterSet with each value it holds moved to the nearest bound of its range
ClampedTheta(theta_params) ==
    IF IsNone(theta_params) THEN theta_params
    ELSE [k \in DOMAIN theta_params |->
             LET lowest == IF k = "cipher_strength" THEN CipherMin
                           ELSE IF k = "entropy" THEN EntropyMin ELSE RoleDecayMin
             IN  Min(ParamMax, Max(lowest, theta_params[k]))]

\* C20: the rule-based Cryptor clamps an out-of-range ParameterSet before use:
\* the bundle it builds under a ParameterSet is the bundle it builds under that
\* ParameterSet clamped to its bounds, so the tokens derived from an out-of-range
\* cipher_strength are those of the nearest bound.
C20_OutOfRangeClampedBeforeUse ==
    (pc = "decryptor" /\ took.cryptor = "fallback" /\ cryptor_out # <<>>) =>
        \E stream \in Streams, now \in Times :
            cryptor_out[1] =
                CryptorFallback(prompter_out, ClampedTheta(theta),
                                CryptorDraws(stream, 1 + Len(prompter_out.entities)), now)

\* the second round encrypted under cipher_strength 0.2, below the bound 0.3,
\* and the intent token is not the token of 0.3
C20_Witness_TokenOfPointTwo ==
    /\ pc = "decryptor"
    /\ iteration = 2
    /\ took.cryptor = "fallback"
    /\ cryptor_out # <<>>
    /\ ~IsNone(theta)
    /\ "cipher_strength" \in DOMAIN theta
    /\ theta.cipher_strength < CipherMin
    /\ cryptor_derive_role_key(s_intent, prompter_out.auth_level, theta)
          # cryptor_derive_role_key(s_intent, prompter_out.auth_level, ClampedTheta(theta))
    /\ \E prefix \in {TokenHex2Upper(stream[1]) : stream \in Streams} :
          DictGet(cryptor_out[1].encrypted_fields, tag_intent)
             = encrypt_field(prompter_out.intent,
                             cryptor_derive_role_key(s_intent, prompter_out.auth_level, theta),
                             prefix)

\* the keys of a dict, as a set
KeySet(d) == {d[i][1] : i \in DOMAIN d}

\* C25: for every verified bundle, each field tag "βΞ_<name>" yields exactly one
\* recovered entity whose key is <name>, so the entities the Decryptor recovers
\* from the Cryptor's bundle have exactly the key set of the input's entities.
C25_RecoveredKeySetEqualsInput ==
    (RuleBundleRecovered /\ decryptor_out # <<>>) =>
        KeySet(decryptor_out[1].entities) = KeySet(prompter_out.entities)

\* what the Decryptor does recover: every entity name without its first character
C25_RecoveredKeysLoseFirstCharacter ==
    (RuleBundleRecovered /\ decryptor_out # <<>>) =>
        KeySet(decryptor_out[1].entities)
            = {DropFirst(name, 1) : name \in KeySet(prompter_out.entities)}

\* the demo input's entities amount, to_account and from_account came back under
\* the keys "mount", "o_account" and "rom_account"
C25_Witness_AmountBecomesMount ==
    /\ RuleBundleRecovered
    /\ decryptor_out # <<>>
    /\ prompter_out = InputPool[1]
    /\ KeySet(decryptor_out[1].entities)
           = {Str(<<"m", "o", "u", "n", "t">>), DropFirst(s_to_account, 1),
              DropFirst(s_from_account, 1)}
    /\ s_amount \notin KeySet(decryptor_out[1].entities)

\* the answers that lead a stage down the given branch: the rule-based branch
\* ignores the answer, so one failing answer stands for all of them
AnswersFor(path, answers) ==
    IF path = "fallback" THEN {LlmNone}
    ELSE {llm \in answers : LlmParsed(llm) /\ ~LlmRejected(llm)}

\* one step of run_pipeline_with_feedback: the stage at pc runs on the output of
\* the stage before it and hands over to the stage after it
FeedbackStep ==
    /\ prompter_out' = prompter_out
    /\ pc \notin {"done", "raised"}
    /\ pc = "cryptor" =>
           /\ pc' \in {"decryptor", "raised"}
           /\ iteration' = iteration
           /\ pc' = "decryptor" =>
                  \E llm \in AnswersFor(took'.cryptor, CryptorAnswers), stream \in Streams,
                     now \in Times :
                      LET r == run_cryptor(prompter_out, theta, LLM_ONLY_MODE, llm,
                                           CryptorDraws(stream, 1 + Len(prompter_out.entities)),
                                           now)
                      IN  ~r.raised /\ cryptor_out' = <<r.value>>
    /\ pc = "decryptor" =>
           /\ pc' \in {"mimicus", "raised"}
           /\ iteration' = iteration
           /\ pc' = "mimicus" => decryptor_out' = <<run_decryptor(cryptor_out[1]).value>>
    /\ pc = "mimicus" =>
           /\ pc' \in {"probator", "raised"}
           /\ iteration' = iteration
           /\ pc' = "probator" =>
                  \E llm \in AnswersFor(took'.mimicus, MimicusAnswers), stream \in Streams :
                      LET r == run_mimicus(decryptor_out[1], LLM_ONLY_MODE, llm, stream)
                      IN  ~r.raised /\ mimicus_out' = <<r.value>>
    /\ pc = "probator" =>
           /\ pc' \in {"praeceptor", "raised"}
           /\ iteration' = iteration
           /\ pc' = "praeceptor" =>
                  \E llm \in AnswersFor(took'.probator, ProbatorAnswers),
                     er_draw \in UniformDraws, sd_draw \in UniformDraws :
                      LET r == run_probator(mimicus_out[1], LLM_ONLY_MODE, llm, er_draw, sd_draw)
                      IN  ~r.raised /\ probator_out' = <<r.value>>
    /\ pc = "praeceptor" =>
           /\ pc' \in {"cryptor", "done", "raised"}
           /\ pc' = "cryptor" <=> (iteration = 1 /\ iteration' = 2)
           /\ pc' # "raised" =>
                  \E llm \in AnswersFor(took'.praeceptor, PraeceptorAnswers), ties \in Ties :
                      LET r == run_praeceptor(probator_out[1], LLM_ONLY_MODE, llm, ties)
                      IN  ~r.raised /\ praeceptor_out' = <<r.value>>

\* the Cryptor of iteration 2 is about to run
SecondCryptorStarts == iteration = 2 /\ pc = "cryptor"

\* C27: in run_pipeline_with_feedback each iteration runs Cryptor, Decryptor,
\* Mimicus, Probator and Praeceptor in that order, each on the output of the
\* stage before it; the Cryptor of iteration 2 starts only after the Praeceptor
\* of iteration 1 has returned, with the ParameterSet that Praeceptor returned
\* and the StructuredInput of iteration 1.
C27_StageOrderAndFeedback ==
    /\ [](SecondCryptorStarts =>
              /\ praeceptor_out # <<>>
              /\ took.praeceptor \in {"llm", "fallback"}
              /\ theta = praeceptor_out[1].theta_update)
    /\ [][FeedbackStep]_vars

\* iteration 2 is about to start with parameters other than those iteration 1
\* started with: the ParameterSet the rule-based Praeceptor returned
C27_Witness_SecondIterationGetsUpdate ==
    /\ SecondCryptorStarts
    /\ took.praeceptor = "fallback"
    /\ praeceptor_out # <<>>
    /\ theta = praeceptor_out[1].theta_update
    /\ theta \notin {InitialTheta(t) : t \in InitialThetas}

\* Mimicus and the Probator have both run their rule-based branch in this round
RuleBasedProbe ==
    took.mimicus = "fallback" /\ took.probator = "fallback" /\ probator_out # <<>>

\* C29: in every round in which Mimicus and the Probator both run their
\* rule-based algorithms, the report's hk_protection is "active" and the
\* hk_feedback the Praeceptor returns is false, for every input and every draw.
C29_RuleBasedProbeNeedsNoFeedback ==
    RuleBasedProbe =>
        /\ probator_out[1].hk_protection = "active"
        /\ praeceptor_out # <<>> => ~praeceptor_out[1].hk_feedback

\* what holds: the protection is "active", and the flag is false when the
\* Praeceptor runs its rule-based branch as well
C29_NoFeedbackFromRuleBasedPraeceptor ==
    RuleBasedProbe =>
        /\ probator_out[1].hk_protection = "active"
        /\ (praeceptor_out # <<>> /\ took.praeceptor = "fallback") =>
               ~praeceptor_out[1].hk_feedback

\* after a rule-based Mimicus and Probator reported "active", the Praeceptor
\* returned the answer of the service, with hk_feedback true
C29_Witness_FeedbackFromAnswer ==
    /\ RuleBasedProbe
    /\ probator_out[1].hk_protection = "active"
    /\ took.praeceptor = "llm"
    /\ praeceptor_out # <<>>
    /\ praeceptor_out[1].hk_feedback

\* the least and the greatest score of a rule-based Probator on a rule-based
\* mimic bundle: 0.47 and 0.74
RuleScoreLow == 47 * Cent
RuleScoreHigh == 74 * Cent

\* the band of C30 in the rounds of run_pipeline_with_feedback, where Mimicus
\* gets the entity names the Decryptor cut
C30_ScoreBandInPipeline ==
    (RuleBasedProbe /\ took.praeceptor = "fallback" /\ praeceptor_out # <<>>) =>
        /\ RuleScoreLow <= probator_out[1].leakage_score
        /\ probator_out[1].leakage_score <= RuleScoreHigh
        /\ praeceptor_out[1].mode
               \in {"recalibrate", "aggressive_recalibrate", "emergency_recalibrate"}

\* a rule-based round of the pipeline on the lowest draws: score 0.47, mode
\* recalibrate
C30_LowestScoreInPipeline ==
    /\ RuleBasedProbe
    /\ took.praeceptor = "fallback"
    /\ praeceptor_out # <<>>
    /\ probator_out[1].details.entity_recovery = EntityRecoveryLow
    /\ probator_out[1].details.semantic_drift = SemanticDriftHigh
    /\ probator_out[1].leakage_score = RuleScoreLow
    /\ praeceptor_out[1].mode = "recalibrate"

\* ------------------------------------------- the tag functions, called directly

\* the pipeline's variables while a function is called on its own
PipelineIdle ==
    /\ LLM_ONLY_MODE = FALSE
    /\ prompter_out = InputPool[1]
    /\ theta = DefaultTheta
    /\ iteration = 1
    /\ pc = "idle"
    /\ cryptor_out = <<>>
    /\ decryptor_out = <<>>
    /\ mimicus_out = <<>>
    /\ probator_out = <<>>
    /\ praeceptor_out = <<>>
    /\ took = NotRun

MaxFields == 2

FieldPairs ==
    { <<k, v>> : k \in {tag_intent, tag_entity_prefix \o s_amount, tag_role5, tag_time},
                 v \in {s_hkp_derived, Str(<<"A", "1">>) \o Sha256Hex(s_amount, FieldHexLen)} }

\* dicts of at most MaxFields entries, in every insertion order, and the field
\* mappings of the rule-based Cryptor
RECURSIVE MappingsOfLen(_)
MappingsOfLen(n) ==
    IF n = 0 THEN {<<>>}
    ELSE UNION {{Append(m, kv) : kv \in {q \in FieldPairs : ~DictHas(m, q[1])}} :
                   m \in MappingsOfLen(n - 1)}

FieldMappings ==
    UNION {MappingsOfLen(n) : n \in 0..MaxFields}
    \cup {CryptorFallback(inp, DefaultTheta,
                          CryptorDraws(DrawStream(1), 1 + Len(inp.entities)), now).encrypted_fields :
              inp \in Inputs, now \in Times}

\* what a caller may append to a tag before presenting it
Appended == {<<>>, Str(<<"x">>), Str(<<"0">>), Str(<<"x", "x">>)}

InitPop ==
    /\ PipelineIdle
    /\ call = NoCalls
    /\ ret = <<>>

CallGeneratePopSignature ==
    /\ call = NoCalls
    /\ \E F \in FieldMappings :
          /\ call' = <<[fn |-> "generate_pop_signature", encrypted_fields |-> F]>>
          /\ ret' = <<generate_pop_signature(F)>>
    /\ UNCHANGED pipeline_vars

\* the tag generated for a mapping is presented with the mapping, as generated or
\* with something appended
CallVerifyPopSignature ==
    /\ call # NoCalls
    /\ \/ call[1].fn = "verify_pop_signature"
       \/ Len(call) = 1 /\ call[1].fn = "generate_pop_signature"
    /\ \E extra \in Appended :
          LET F == call[1].encrypted_fields
              expected_signature == generate_pop_signature(F) \o extra
              kept == call[1].fn = "verify_pop_signature"
          IN  /\ call' = <<[fn |-> "verify_pop_signature", encrypted_fields |-> F,
                            expected_signature |-> expected_signature]>>
                         \o (IF kept THEN <<call[1]>> ELSE <<>>)
              /\ ret' = <<verify_pop_signature(F, expected_signature)>>
                        \o (IF kept THEN <<ret[1]>> ELSE <<>>)
    /\ UNCHANGED pipeline_vars

\* the same dict with its keys inserted in another order: every order for a
\* mapping of at most MaxPermuted keys, the reversed and the rotated order beyond
MaxPermuted == 3

RECURSIVE KeyOrders(_)
KeyOrders(d) ==
    IF d = <<>> THEN {<<>>}
    ELSE UNION {{<<d[i]>> \o rest :
                    rest \in KeyOrders([j \in 1..(Len(d) - 1) |->
                                              IF j < i THEN d[j] ELSE d[j + 1]])} :
                   i \in 1..Len(d)}

Reorderings(d) ==
    IF Len(d) <= MaxPermuted THEN KeyOrders(d)
    ELSE {[i \in 1..Len(d) |-> d[Len(d) + 1 - i]], Tail(d) \o <<Head(d)>>}

\* generate_pop_signature on a reordering of the mapping just tagged
CallGeneratePopSignatureReordered ==
    /\ Len(call) = 1
    /\ call[1].fn = "generate_pop_signature"
    /\ \E F \in Reorderings(call[1].encrypted_fields) :
          /\ call' = <<[fn |-> "generate_pop_signature", encrypted_fields |-> F]>> \o call
          /\ ret' = <<generate_pop_signature(F)>> \o ret
    /\ UNCHANGED pipeline_vars

\* the tag just generated is presented with a reordering of the mapping it was
\* generated for
CallVerifyPopSignatureReordered ==
    /\ Len(call) = 1
    /\ call[1].fn = "generate_pop_signature"
    /\ \E F \in Reorderings(call[1].encrypted_fields) :
          /\ call' = <<[fn |-> "verify_pop_signature", encrypted_fields |-> F,
                        expected_signature |-> ret[1],
                        tagged |-> call[1].encrypted_fields]>>
          /\ ret' = <<verify_pop_signature(F, ret[1])>>
    /\ UNCHANGED pipeline_vars

\* the characters a character of a value is changed into
AlteredTo == {"x", "\"", "\\", "u2126"}

\* the mappings that differ from d in one character of one value (a digest
\* inside a value is left as it is)
Alterations(d) ==
    UNION {UNION {{[d EXCEPT ![i] = <<d[i][1], [d[i][2] EXCEPT ![j] = <<c>>]>>] :
                      c \in {a \in AlteredTo : d[i][2][j] # <<a>>}} :
                     j \in {p \in DOMAIN d[i][2] : ~IsBlock(d[i][2][p])}} :
              i \in DOMAIN d}

\* generate_pop_signature on the mapping just tagged with one character of one
\* value changed
CallGeneratePopSignatureAltered ==
    /\ Len(call) = 1
    /\ call[1].fn = "generate_pop_signature"
    /\ \E F \in Alterations(call[1].encrypted_fields) :
          /\ call' = <<[fn |-> "generate_pop_signature", encrypted_fields |-> F]>> \o call
          /\ ret' = <<generate_pop_signature(F)>> \o ret
    /\ UNCHANGED pipeline_vars

\* the Decryptor is given a bundle whose mapping was altered after it was tagged;
\* ret records whether it raised
CallRunDecryptorAltered ==
    /\ Len(call) = 1
    /\ call[1].fn = "generate_pop_signature"
    /\ \E F \in Alterations(call[1].encrypted_fields), now \in Times :
          LET inp == EncryptedOutput(F, role_gamma5, ret[1], now)
          IN  /\ call' = <<[fn |-> "run_decryptor", inp |-> inp, encrypted_fields |-> F,
                            tagged |-> call[1].encrypted_fields]>>
              /\ ret' = <<run_decryptor(inp).raised>>
    /\ UNCHANGED pipeline_vars

NextPop ==
    \/ CallGeneratePopSignature
    \/ CallVerifyPopSignature
    \/ CallGeneratePopSignatureReordered
    \/ CallVerifyPopSignatureReordered
    \/ CallGeneratePopSignatureAltered
    \/ CallRunDecryptorAltered

SpecPop == InitPop /\ [][NextPop]_vars

\* C1: for every field mapping F, verify_pop_signature(F, generate_pop_signature(F))
\* is true, and verify_pop_signature(F, t) is false when t is that tag with one
\* extra character appended.
C1_VerificationSoundness ==
    \A i \in DOMAIN call :
        call[i].fn = "verify_pop_signature" =>
            LET tag == generate_pop_signature(call[i].encrypted_fields)
            IN  /\ call[i].expected_signature = tag => ret[i] = TRUE
                /\ (\E c \in {"x", "0"} : call[i].expected_signature = tag \o Str(<<c>>))
                       => ret[i] = FALSE

\* the tag of a Cryptor mapping was accepted, then the same tag plus "x" rejected
C1_Witness_TagThenTagPlusX ==
    /\ Len(call) = 2
    /\ call[1].fn = "verify_pop_signature"
    /\ DictHas(call[1].encrypted_fields, tag_gamma)
    /\ call[2].expected_signature = generate_pop_signature(call[1].encrypted_fields)
    /\ ret[2] = TRUE
    /\ call[1].expected_signature = call[2].expected_signature \o Str(<<"x">>)
    /\ ret[1] = FALSE

\* the same keys with the same values, in any order
IsReordering(F, G) ==
    /\ Len(F) = Len(G)
    /\ {F[i] : i \in DOMAIN F} = {G[i] : i \in DOMAIN G}

\* C17: the tag does not depend on the order of the keys: for a mapping F and a
\* reordering F' of its keys, generate_pop_signature(F') equals
\* generate_pop_signature(F), and verify_pop_signature(F', generate_pop_signature(F))
\* is true.
C17_TagIgnoresKeyOrder ==
    /\ ( /\ Len(call) = 2
         /\ call[1].fn = "generate_pop_signature"
         /\ call[2].fn = "generate_pop_signature"
         /\ IsReordering(call[1].encrypted_fields, call[2].encrypted_fields) )
       => ret[1] = ret[2]
    /\ \A i \in DOMAIN call :
          ( /\ call[i].fn = "verify_pop_signature"
            /\ "tagged" \in DOMAIN call[i]
            /\ IsReordering(call[i].encrypted_fields, call[i].tagged) )
          => ret[i] = TRUE

\* the tag of a two-key mapping was accepted for the mapping with its keys the
\* other way round
C17_Witness_SwappedKeysAccepted ==
    /\ Len(call) = 1
    /\ call[1].fn = "verify_pop_signature"
    /\ "tagged" \in DOMAIN call[1]
    /\ Len(call[1].tagged) = 2
    /\ call[1].encrypted_fields = <<call[1].tagged[2], call[1].tagged[1]>>
    /\ call[1].expected_signature = generate_pop_signature(call[1].tagged)
    /\ ret[1] = TRUE

\* G is F with one character of one value changed
IsSingleCharacterChange(F, G) ==
    /\ Len(F) = Len(G)
    /\ \E i \in DOMAIN F :
          /\ \A k \in DOMAIN F : F[k][1] = G[k][1] /\ (k # i => F[k] = G[k])
          /\ Len(F[i][2]) = Len(G[i][2])
          /\ \E j \in DOMAIN F[i][2] :
                /\ F[i][2][j] # G[i][2][j]
                /\ \A k \in DOMAIN F[i][2] : k # j => F[i][2][k] = G[i][2][k]

\* C18: for a mapping F and a mapping F' that differs from F in a single
\* character of a single value, generate_pop_signature(F') differs from
\* generate_pop_signature(F), and the Decryptor rejects a bundle that carries F'
\* with the tag of F.
C18_TagSensitiveToValueChange ==
    /\ ( /\ Len(call) = 2
         /\ call[1].fn = "generate_pop_signature"
         /\ call[2].fn = "generate_pop_signature"
         /\ IsSingleCharacterChange(call[2].encrypted_fields, call[1].encrypted_fields) )
       => ret[1] # ret[2]
    /\ \A i \in DOMAIN call :
          ( /\ call[i].fn = "run_decryptor"
            /\ call[i].inp.pop_signature = generate_pop_signature(call[i].tagged)
            /\ IsSingleCharacterChange(call[i].tagged, call[i].inp.encrypted_fields) )
          => ret[i] = TRUE

\* "HKP-derived" became "HKP-derive\"" after tagging and the Decryptor raised
C18_Witness_QuoteInsteadOfLastLetter ==
    /\ Len(call) = 1
    /\ call[1].fn = "run_decryptor"
    /\ DictHas(call[1].tagged, tag_role5)
    /\ DictGet(call[1].tagged, tag_role5) = s_hkp_derived
    /\ DictGet(call[1].inp.encrypted_fields, tag_role5)
          = SubSeq(s_hkp_derived, 1, Len(s_hkp_derived) - 1) \o Str(<<"\"">>)
    /\ call[1].inp.pop_signature = generate_pop_signature(call[1].tagged)
    /\ ret[1] = TRUE

\* -------------------------------------- the calibration functions, called directly

ScoresPerUnit == 10

Thresholds == {EmergencyAbove, AggressiveAbove, RecalibrateAbove, FineTuneAbove}

\* scores from -0.2 to 1.5, the thresholds, and 0.001 to either side of each
Scores ==
    {(k * One) \div ScoresPerUnit : k \in -2..(ScoresPerUnit + 5)}
    \cup {t + d : t \in Thresholds, d \in {-1000, 0, 1000}}

\* factor breakdowns: none, every nudge of calibrate_parameters on, every nudge
\* off, and one factor alone
FactorBreakdowns ==
    { NoKeys,
      [entity_recovery |-> 400000, structure_fidelity |-> One, semantic_drift |-> 300000,
       pattern_consistency |-> One, field_mapping_accuracy |-> 800000],
      [entity_recovery |-> 100000, structure_fidelity |-> 250000, semantic_drift |-> 800000,
       pattern_consistency |-> 0, field_mapping_accuracy |-> 0],
      [entity_recovery |-> 400000] }

InitCal ==
    /\ PipelineIdle
    /\ call = NoCalls
    /\ ret = <<>>

CallDetermineCalibrationMode ==
    /\ \E leakage_score \in Scores :
          LET kept == call # NoCalls /\ call[1].fn = "determine_calibration_mode"
          IN  /\ call' = <<[fn |-> "determine_calibration_mode",
                            leakage_score |-> leakage_score]>>
                         \o (IF kept THEN <<call[1]>> ELSE <<>>)
              /\ ret' = <<determine_calibration_mode(leakage_score)>>
                        \o (IF kept THEN <<ret[1]>> ELSE <<>>)
    /\ UNCHANGED pipeline_vars

\* a run of calls of calibrate_parameters holds the factor breakdown fixed
CallCalibrateParameters ==
    /\ \E leakage_score \in Scores, details \in FactorBreakdowns, ties \in Ties :
          LET kept == call # NoCalls /\ call[1].fn = "calibrate_parameters"
              leakage_assessment == LeakageVectorOut(leakage_score, details, "active")
          IN  /\ kept => details = call[1].details
              /\ call' = <<[fn |-> "calibrate_parameters", leakage_score |-> leakage_score,
                            details |-> details]>>
                         \o (IF kept THEN <<call[1]>> ELSE <<>>)
              /\ ret' = <<calibrate_parameters(leakage_assessment, ties)>>
                        \o (IF kept THEN <<ret[1]>> ELSE <<>>)
    /\ UNCHANGED pipeline_vars

NextCal == CallDetermineCalibrationMode \/ CallCalibrateParameters

SpecCal == InitCal /\ [][NextCal]_vars

\* C8: determine_calibration_mode maps every score to one mode by strict
\* thresholds: above 0.7 emergency_recalibrate, else above 0.5
\* aggressive_recalibrate, else above 0.3 recalibrate, else above 0.1 fine_tune,
\* else maintain; the scores 0.7, 0.5, 0.3 and 0.1 land in the lower band.
C8_ModeByStrictThresholds ==
    \A i \in DOMAIN call :
        call[i].fn = "determine_calibration_mode" =>
            LET s == call[i].leakage_score
            IN  /\ ret[i] \in {"emergency_recalibrate", "aggressive_recalibrate",
                               "recalibrate", "fine_tune", "maintain"}
                /\ ret[i] = "emergency_recalibrate" <=> s > 700000
                /\ ret[i] = "aggressive_recalibrate" <=> (s > 500000 /\ s <= 700000)
                /\ ret[i] = "recalibrate" <=> (s > 300000 /\ s <= 500000)
                /\ ret[i] = "fine_tune" <=> (s > 100000 /\ s <= 300000)
                /\ ret[i] = "maintain" <=> s <= 100000

\* score 0.7 gave aggressive_recalibrate and, before it, 0.701 gave
\* emergency_recalibrate
C8_Witness_BoundaryLandsBelow ==
    /\ Len(call) = 2
    /\ call[1].fn = "determine_calibration_mode"
    /\ call[1].leakage_score = 700000 /\ ret[1] = "aggressive_recalibrate"
    /\ call[2].leakage_score = 701000 /\ ret[2] = "emergency_recalibrate"

\* the ranges a ParameterSet of the Praeceptor is to lie in
WithinParameterRanges(theta_update) ==
    /\ DOMAIN theta_update = {"entropy", "cipher_strength", "role_decay"}
    /\ theta_update.entropy >= 100000 /\ theta_update.entropy <= One
    /\ theta_update.cipher_strength >= 300000 /\ theta_update.cipher_strength <= One
    /\ theta_update.role_decay >= 100000 /\ theta_update.role_decay <= One

\* C9: every ParameterSet run_praeceptor returns has entropy in [0.1, 1.0],
\* cipher_strength in [0.3, 1.0] and role_decay in [0.1, 1.0], for every
\* LeakageVectorOut, scores outside [0, 1] and any factor breakdown included.
C9_ParametersClamped ==
    praeceptor_out # <<>> => WithinParameterRanges(praeceptor_out[1].theta_update)

\* C9 for the ParameterSets run_praeceptor computes itself
C9_ParametersClampedRuleBased ==
    (praeceptor_out # <<>> /\ took.praeceptor = "fallback") =>
        WithinParameterRanges(praeceptor_out[1].theta_update)

\* run_praeceptor returned the entropy 1.5 of the service unchanged, and the
\* second round encrypts under it
C9_Witness_EntropyAboveOne ==
    /\ praeceptor_out # <<>>
    /\ took.praeceptor = "llm"
    /\ "entropy" \in DOMAIN praeceptor_out[1].theta_update
    /\ praeceptor_out[1].theta_update.entropy > One
    /\ iteration = 2
    /\ theta = praeceptor_out[1].theta_update

\* C10: with the factor breakdown held fixed, the entropy and the
\* cipher_strength calibrate_parameters returns for score 0.8 are each no lower
\* than those it returns for score 0.2.
C10_HigherAtPointEightThanPointTwo ==
    \A i, j \in DOMAIN call :
        (/\ call[i].fn = "calibrate_parameters" /\ call[j].fn = "calibrate_parameters"
         /\ call[i].details = call[j].details
         /\ call[i].leakage_score = 200000 /\ call[j].leakage_score = 800000) =>
            /\ ret[j].entropy >= ret[i].entropy
            /\ ret[j].cipher_strength >= ret[i].cipher_strength

\* score 0.2 then score 0.8 on the breakdown with no factors: entropy went from
\* 0.56 to 0.8, cipher_strength from 0.845 to 1.0
C10_Witness_PointTwoThenPointEight ==
    /\ Len(call) = 2
    /\ call[1].fn = "calibrate_parameters"
    /\ call[1].details = NoKeys
    /\ call[2].leakage_score = 200000 /\ call[1].leakage_score = 800000
    /\ ret[2].entropy = 560000 /\ ret[1].entropy = 800000
    /\ ret[2].cipher_strength = 845000 /\ ret[1].cipher_strength = One

\* two calls of calibrate_parameters on one factor breakdown, the earlier with
\* the lower score, both scores in [0, 1]
RisingScores(i, j) ==
    /\ call[i].fn = "calibrate_parameters" /\ call[j].fn = "calibrate_parameters"
    /\ call[i].details = call[j].details
    /\ 0 <= call[i].leakage_score /\ call[i].leakage_score < call[j].leakage_score
    /\ call[j].leakage_score <= One

\* C26: with the factor breakdown held fixed, for all scores s1 < s2 in [0, 1]
\* calibrate_parameters returns for s2 an entropy and a cipher_strength no lower
\* than those it returns for s1.
C26_MonotoneInScore ==
    \A i, j \in DOMAIN call :
        RisingScores(i, j) =>
            /\ ret[i].entropy <= ret[j].entropy
            /\ ret[i].cipher_strength <= ret[j].cipher_strength

\* what does hold: the higher score never yields less when it is above 0.5
C26_MonotoneIntoHighLeakage ==
    \A i, j \in DOMAIN call :
        (RisingScores(i, j) /\ call[j].leakage_score > HighLeakage) =>
            /\ ret[i].entropy <= ret[j].entropy
            /\ ret[i].cipher_strength <= ret[j].cipher_strength

\* score 0.3 then score 0.5 on the breakdown with no factors: entropy fell from
\* 0.54 to 0.5, cipher_strength from 0.83 to 0.8
C26_Witness_FallsBelowHalf ==
    /\ Len(call) = 2
    /\ call[1].fn = "calibrate_parameters"
    /\ call[1].details = NoKeys
    /\ call[2].leakage_score = RecalibrateAbove /\ call[1].leakage_score = AggressiveAbove
    /\ ret[2].entropy = BaseEntropy + 4 * Cent /\ ret[1].entropy = BaseEntropy
    /\ ret[2].cipher_strength = BaseCipherStrength + 3 * Cent
    /\ ret[1].cipher_strength = BaseCipherStrength

MarkerPool == <<tag_intent, tag_role5, tag_role3, tag_time, s_pop_signature>>

RECURSIVE PickMarkers(_, _)
PickMarkers(picked, i) ==
    IF i > Len(MarkerPool) THEN <<>>
    ELSE (IF i \in picked THEN << <<MarkerPool[i], s_mimic_derived>> >> ELSE <<>>)
         \o PickMarkers(picked, i + 1)

MarkerMappings == {PickMarkers(picked, 1) : picked \in SUBSET (1..Len(MarkerPool))}

InitProb ==
    /\ PipelineIdle
    /\ call = NoCalls
    /\ ret = <<>>

CallAssessHkpProtection ==
    /\ \E mimic_fields \in MarkerMappings :
          /\ call' = <<[fn |-> "assess_hkp_protection", mimic_fields |-> mimic_fields]>>
                     \o (IF call # NoCalls THEN <<call[1]>> ELSE <<>>)
          /\ ret' = <<assess_hkp_protection(mimic_fields)>>
                    \o (IF call # NoCalls THEN <<ret[1]>> ELSE <<>>)
    /\ UNCHANGED pipeline_vars

NextProb == CallAssessHkpProtection

SpecProb == InitProb /\ [][NextProb]_vars

\* C13: assess_hkp_protection returns "active" if and only if the mapping holds
\* a protocol marker (Role=G5, Time or pop_signature), the wrong role marker
\* Role=G3 and the time marker; "partial" when a protocol marker is there but
\* not both other signals; "inactive" in every other case.
C13_ProtectionClasses ==
    \A i \in DOMAIN call :
        call[i].fn = "assess_hkp_protection" =>
            LET F == call[i].mimic_fields
                marker == \E k \in {tag_role5, tag_time, s_pop_signature} : DictHas(F, k)
                wrong_role == DictHas(F, tag_role3)
                time_marker == DictHas(F, tag_time)
            IN  /\ ret[i] \in {"active", "partial", "inactive"}
                /\ ret[i] = "active" <=> (marker /\ wrong_role /\ time_marker)
                /\ ret[i] = "partial" <=> (marker /\ ~(wrong_role /\ time_marker))
                /\ ret[i] = "inactive" <=> ~marker

\* Role=G5 with Role=G3 but no time marker gave "partial"; before it, the same
\* with the time marker gave "active"
C13_Witness_PartialThenActive ==
    /\ Len(call) = 2
    /\ call[1].fn = "assess_hkp_protection"
    /\ call[1].mimic_fields = PickMarkers({2, 3}, 1)
    /\ ret[1] = "partial"
    /\ call[2].mimic_fields = PickMarkers({2, 3, 4}, 1)
    /\ ret[2] = "active"

\* ------------------------------------------ the MimicEngine, called directly

\* entity keys of the RecoveredFields handed to generate_mimic_fields; the
\* entities of one call are a selection of them, in this order
EntityKeyPool ==
    <<s_amount, s_to_account, s_from_account, s_account, s_memo,
      Str(<<"r", "e", "c", "i", "p", "i", "e", "n", "t">>)>>

RECURSIVE PickEntities(_, _)
PickEntities(picked, i) ==
    IF i > Len(EntityKeyPool) THEN <<>>
    ELSE (IF i \in picked THEN << <<EntityKeyPool[i], s_acct_other>> >> ELSE <<>>)
         \o PickEntities(picked, i + 1)

RecoveredFields ==
    {DecryptedFieldsOut(s_transfer, PickEntities(picked, 1), s_Level_4,
                        CHOOSE t \in Times : TRUE, s_queued) :
        picked \in SUBSET (1..Len(EntityKeyPool))}

InitMim ==
    /\ PipelineIdle
    /\ call = NoCalls
    /\ ret = <<>>

CallGenerateMimicFields ==
    /\ \E decrypted_input \in RecoveredFields, stream \in Streams :
          /\ call' = <<[fn |-> "generate_mimic_fields", decrypted_input |-> decrypted_input]>>
          /\ ret' = <<generate_mimic_fields(decrypted_input, stream)>>
    /\ UNCHANGED pipeline_vars

NextMim == CallGenerateMimicFields

SpecMim == InitMim /\ [][NextMim]_vars

AmountLikeKeys == {s_amount}
AccountLikeKeys == {s_to_account, s_from_account, s_account}

\* C15: the MimicEngine emits the tag bX_amount_mimic whenever the recovered
\* entities hold an amount-like key, the tag bX_account_mimic whenever they hold
\* an account-like key (to_account, from_account or account), and neither tag
\* when they hold no such key.
C15_TargetedTagsForAccountLikeKeys ==
    \A i \in DOMAIN call :
        call[i].fn = "generate_mimic_fields" =>
            LET entities == call[i].decrypted_input.entities
                amount_like == \E k \in AmountLikeKeys : DictHas(entities, k)
                account_like == \E k \in AccountLikeKeys : DictHas(entities, k)
            IN  /\ amount_like => DictHas(ret[i], tag_amount_mimic)
                /\ account_like => DictHas(ret[i], tag_account_mimic)
                /\ (~amount_like /\ ~account_like) =>
                      (~DictHas(ret[i], tag_amount_mimic) /\ ~DictHas(ret[i], tag_account_mimic))

\* what the code does: the tags follow the exact keys "amount" and "to_account"
C15_TargetedTagsForExactKeys ==
    \A i \in DOMAIN call :
        call[i].fn = "generate_mimic_fields" =>
            LET entities == call[i].decrypted_input.entities
            IN  /\ DictHas(ret[i], tag_amount_mimic) <=> DictHas(entities, s_amount)
                /\ DictHas(ret[i], tag_account_mimic) <=> DictHas(entities, s_to_account)

\* entities with from_account and account only: no account tag was emitted
C15_Witness_FromAccountWithoutTag ==
    /\ call # NoCalls
    /\ call[1].fn = "generate_mimic_fields"
    /\ call[1].decrypted_input.entities = PickEntities({3, 4}, 1)
    /\ ~DictHas(ret[1], tag_account_mimic)
    /\ DictHas(ret[1], tag_role3)

\* --------------------------------------- derive_role_key, called directly

KeyFieldNames == {s_intent, s_amount}
KeyAuthLevels == {s_L1, s_L4}

\* theta_params with and without a cipher_strength entry, over two values of
\* each of the other parameters
KeyThetas ==
    [entropy : {DefaultEntropy, 700000}, cipher_strength : {DefaultCipherStrength, 900000},
     role_decay : {DefaultRoleDecay, 600000}]
    \cup [entropy : {DefaultEntropy, 700000}, role_decay : {DefaultRoleDecay, 600000}]

InitKey ==
    /\ PipelineIdle
    /\ call = NoCalls
    /\ ret = <<>>

\* one call of each module's derive_role_key on the same arguments; the call
\* before it is kept
CallDeriveRoleKey ==
    /\ \E field_name \in KeyFieldNames, auth_level \in KeyAuthLevels, theta_params \in KeyThetas :
          /\ call' = <<[fn |-> "derive_role_key", field_name |-> field_name,
                        auth_level |-> auth_level, theta_params |-> theta_params]>>
                     \o (IF call # NoCalls THEN <<call[1]>> ELSE <<>>)
          /\ ret' = <<[cryptor |-> cryptor_derive_role_key(field_name, auth_level, theta_params),
                       decryptor |-> decryptor_derive_role_key(field_name, auth_level,
                                                               theta_params)]>>
                    \o (IF call # NoCalls THEN <<ret[1]>> ELSE <<>>)
    /\ UNCHANGED pipeline_vars

\* what a caller can pass for auth_level besides L1..L5: a level that does not
\* exist, the empty string, and None, which the f-string formats as "None"
InvalidAuthLevels == {Str(<<"L", "9">>), <<>>, Str(<<"N", "o", "n", "e">>)}

ValidAuthLevels == {Str(<<"L", d>>) : d \in {"1", "2", "3", "4", "5"}}

\* one call of the Cryptor's derive_role_key with an auth_level outside L1..L5
CallDeriveRoleKeyInvalidLevel ==
    /\ \E field_name \in KeyFieldNames, auth_level \in InvalidAuthLevels,
          theta_params \in KeyThetas :
          /\ call' = <<[fn |-> "derive_role_key", field_name |-> field_name,
                        auth_level |-> auth_level, theta_params |-> theta_params]>>
          /\ ret' = <<[cryptor |-> cryptor_derive_role_key(field_name, auth_level, theta_params),
                       decryptor |-> decryptor_derive_role_key(field_name, auth_level,
                                                               theta_params)]>>
    /\ UNCHANGED pipeline_vars

NextKey == CallDeriveRoleKey \/ CallDeriveRoleKeyInvalidLevel

SpecKey == InitKey /\ [][NextKey]_vars

\* theta_params.get('cipher_strength', 0.8)
CipherStrengthOf(theta_params) ==
    ThetaGet(theta_params, "cipher_strength", DefaultCipherStrength)

\* C16: derive_role_key depends only on field_name, role level and
\* cipher_strength: two calls on the same triple return the same token, also
\* when entropy or role_decay differ, and the Cryptor's and the Decryptor's
\* copies return the same token.
C16_KeyDependsOnTripleOnly ==
    /\ \A i \in DOMAIN call :
          call[i].fn = "derive_role_key" => ret[i].cryptor = ret[i].decryptor
    /\ \A i, j \in DOMAIN call :
          ( /\ call[i].fn = "derive_role_key"
            /\ call[j].fn = "derive_role_key"
            /\ call[i].field_name = call[j].field_name
            /\ call[i].auth_level = call[j].auth_level
            /\ CipherStrengthOf(call[i].theta_params) = CipherStrengthOf(call[j].theta_params) )
          => ret[i] = ret[j]

\* two calls on (amount, L4, 0.9) that differ in entropy and in role_decay
C16_Witness_OtherEntropyAndDecay ==
    /\ Len(call) = 2
    /\ call[1].fn = "derive_role_key"
    /\ call[1].field_name = s_amount /\ call[2].field_name = s_amount
    /\ call[1].auth_level = s_L4 /\ call[2].auth_level = s_L4
    /\ "cipher_strength" \in DOMAIN call[1].theta_params
    /\ "cipher_strength" \in DOMAIN call[2].theta_params
    /\ call[1].theta_params.cipher_strength = 900000
    /\ call[2].theta_params.cipher_strength = 900000
    /\ call[1].theta_params.entropy # call[2].theta_params.entropy
    /\ call[1].theta_params.role_decay # call[2].theta_params.role_decay
    /\ ret[1].cryptor = ret[2].decryptor

\* C21: derive_role_key never fails, and for a role level that is not one of
\* L1..L5 it returns the token it returns for "L4" with the same field_name and
\* params.
C21_InvalidLevelDefaultsToL4 ==
    \A i \in DOMAIN call :
        (call[i].fn = "derive_role_key" /\ call[i].auth_level \notin ValidAuthLevels) =>
            ret[i].cryptor
                = cryptor_derive_role_key(call[i].field_name, s_L4, call[i].theta_params)

\* what the code does: the level is part of the hashed string as it is given, so
\* two calls that differ only in the level return different tokens
C21_LevelHashedAsGiven ==
    \A i \in DOMAIN call :
        (call[i].fn = "derive_role_key" /\ call[i].auth_level # s_L4) =>
            ret[i].cryptor
                # cryptor_derive_role_key(call[i].field_name, s_L4, call[i].theta_params)

\* derive_role_key("amount", "L9", ...) returned a token, and not the token of L4
C21_Witness_TokenOfL9 ==
    /\ Len(call) = 1
    /\ call[1].fn = "derive_role_key"
    /\ call[1].field_name = s_amount
    /\ call[1].auth_level = Str(<<"L", "9">>)
    /\ ret[1].cryptor # cryptor_derive_role_key(s_amount, s_L4, call[1].theta_params)
    /\ ret[1].cryptor = ret[1].decryptor

\* ------------------------------- the scoring of two rounds, called directly

\* a mimic bundle with the first `tags` canonical tags, of which the first
\* `patterns` carry a value of the shape analyze_leakage_patterns looks for, and
\* with the first `targets` targeted tags
RoundOneScore == (6 * One) \div 10

ProbeValues == <<s_ZYNQ, s_blk_, s_AKR_, s_E>>
ProbeTargets == <<tag_amount_mimic, tag_account_mimic>>

ProbeBundle(tags, patterns, targets) ==
    MimicOutput(
        [i \in 1..tags |->
            <<expected_fields[i], IF i <= patterns THEN ProbeValues[i] ELSE s_mimic_derived>>]
        \o [i \in 1..targets |-> <<ProbeTargets[i], s_mimic_derived>>],
        s_mimic_attempt)

ProbeShapes ==
    {sh \in (0..Len(expected_fields)) \X (0..Len(expected_fields)) \X (0..Len(ProbeTargets)) :
        sh[2] <= sh[1]}

\* draws at the ends and in the middle of each range
ProbeDraws == {0, 50, 100}

\* the rule-based Probator and the rule-based mode of one round
ScoredRound(shape, er_draw, sd_draw) ==
    LET report == run_probator(ProbeBundle(shape[1], shape[2], shape[3]), FALSE, LlmNone,
                               er_draw, sd_draw).value
    IN  [leakage_score |-> report.leakage_score,
         mode |-> determine_calibration_mode(report.leakage_score)]

InitRnd ==
    /\ PipelineIdle
    /\ call = NoCalls
    /\ ret = <<>>

CallRoundOne ==
    /\ call = NoCalls
    /\ \E shape \in ProbeShapes, er_draw \in ProbeDraws, sd_draw \in ProbeDraws :
          /\ call' = <<[fn |-> "round", shape |-> shape]>>
          /\ ret' = <<ScoredRound(shape, er_draw, sd_draw)>>
    /\ UNCHANGED pipeline_vars

\* a second round after a first round that scored 0.6
CallRoundTwo ==
    /\ Len(call) = 1
    /\ call[1].fn = "round"
    /\ ret[1].leakage_score = RoundOneScore
    /\ \E shape \in ProbeShapes, er_draw \in ProbeDraws, sd_draw \in ProbeDraws :
          /\ call' = <<[fn |-> "round", shape |-> shape]>> \o call
          /\ ret' = <<ScoredRound(shape, er_draw, sd_draw)>> \o ret
    /\ UNCHANGED pipeline_vars

NextRnd == CallRoundOne \/ CallRoundTwo

SpecRnd == InitRnd /\ [][NextRnd]_vars

\* the bundle of shape a has strictly fewer matching factors than that of shape b
FewerFactors(a, b) ==
    /\ \A k \in 1..3 : a[k] <= b[k]
    /\ a # b

Severity(mode) ==
    CASE mode = "maintain" -> 0
      [] mode = "fine_tune" -> 1
      [] mode = "recalibrate" -> 2
      [] mode = "aggressive_recalibrate" -> 3
      [] mode = "emergency_recalibrate" -> 4

\* C22: when round 1 scores 0.6 and round 2 runs on a mimic bundle with strictly
\* fewer matching factors, the mode of round 2 is never more severe than the mode
\* of round 1, whatever entity_recovery and semantic_drift are drawn.
C22_FewerFactorsNeverMoreSevere ==
    ( /\ Len(call) = 2
      /\ ret[2].leakage_score = RoundOneScore
      /\ FewerFactors(call[1].shape, call[2].shape) )
    => Severity(ret[1].mode) <= Severity(ret[2].mode)

\* round 1 scored 0.6 on the full bundle; round 2, on the bundle without the
\* pattern of the node tag, scored above 0.7
C22_Witness_EmergencyAfterAggressive ==
    /\ Len(call) = 2
    /\ call[2].shape = <<4, 4, 2>>
    /\ ret[2].leakage_score = RoundOneScore
    /\ ret[2].mode = "aggressive_recalibrate"
    /\ call[1].shape = <<4, 3, 2>>
    /\ ret[1].leakage_score > EmergencyAbove
    /\ ret[1].mode = "emergency_recalibrate"

\* ------------------------------------ two pipeline instances in one process

\* Two instances of run_pipeline_demo run in one process. call[i] is instance i:
\* the stage it is about to run, the output of its last stage, and the value
\* LLM_ONLY_MODE had in the environment when it started. Every stage reads the
\* flag from the environment when it is called.
ParStages == <<"cryptor", "decryptor", "mimicus", "probator", "praeceptor", "done">>

StageAfter(stage) == ParStages[1 + CHOOSE k \in 1..5 : ParStages[k] = stage]

ParInput == InputPool[1]

\* what the service answers a stage: nothing, or one bundle the stage accepts
ParAnswers ==
    [cryptor |-> {LlmNone,
                  LlmDict([encrypted_fields |-> Good(ServiceFields),
                           role_tag |-> Good(role_gamma5),
                           pop_signature |-> Good(generate_pop_signature(ServiceFields)),
                           time_tag |-> Good(s_time_example)])},
     decryptor |-> {LlmNone},
     mimicus |-> {LlmNone,
                  LlmDict([mimic_fields |-> Good(<< <<tag_role5, s_hkp_derived>> >>),
                           spoof_status |-> Good(s_mimic_attempt)])},
     probator |-> {LlmNone,
                   LlmDict([leakage_score |-> Good(RoundOneScore), details |-> Good(NoKeys),
                            hk_protection |-> Good("active")])},
     praeceptor |-> {LlmNone,
                     LlmDict([theta_update |-> Good(DefaultTheta),
                              mode |-> Good("maintain"), hk_feedback |-> Good(FALSE)])}]

\* the call of one stage on the output of the stage before it
StageCall(stage, data, llm_only_mode, llm) ==
    CASE stage = "cryptor" ->
            run_cryptor(ParInput, NoTheta, llm_only_mode, llm,
                        CryptorDraws(DrawStream(1), 1 + Len(ParInput.entities)),
                        CHOOSE now \in Times : TRUE)
      [] stage = "decryptor" -> run_decryptor(data)
      [] stage = "mimicus" -> run_mimicus(data, llm_only_mode, llm, DrawStream(1))
      [] stage = "probator" -> run_probator(data, llm_only_mode, llm, 0, 0)
      [] stage = "praeceptor" ->
            run_praeceptor(data, llm_only_mode, llm, CHOOSE ties \in Ties : TRUE)

\* the instance after the stage: at the next stage with the value returned, or
\* stopped by the exception, of which the stage and the raising branch are kept
AfterStage(stage, data, llm_only_mode, llm) ==
    LET r == StageCall(stage, data, llm_only_mode, llm)
    IN  IF r.raised THEN [pc |-> "raised", data |-> [stage |-> stage, path |-> r.path]]
        ELSE [pc |-> StageAfter(stage), data |-> r.value]

NotStarted == [pc |-> "not_started", data |-> <<>>, env_at_start |-> FALSE]

InitPar ==
    /\ PipelineIdle
    /\ call = <<NotStarted, NotStarted>>
    /\ ret = <<>>

rest_of_pipeline_vars ==
    <<prompter_out, theta, iteration, pc, cryptor_out, decryptor_out, mimicus_out,
      probator_out, praeceptor_out, took>>

StartInstance ==
    /\ \E i \in DOMAIN call :
          /\ call[i].pc = "not_started"
          /\ call' = [call EXCEPT ![i] = [pc |-> "cryptor", data |-> <<>>,
                                          env_at_start |-> LLM_ONLY_MODE]]
    /\ UNCHANGED <<pipeline_vars, ret>>

RunStageOfInstance ==
    /\ \E i \in DOMAIN call :
          /\ call[i].pc \in {"cryptor", "decryptor", "mimicus", "probator", "praeceptor"}
          /\ \E llm \in ParAnswers[call[i].pc] :
                LET after == AfterStage(call[i].pc, call[i].data, LLM_ONLY_MODE, llm)
                IN  call' = [call EXCEPT ![i] = [pc |-> after.pc, data |-> after.data,
                                                 env_at_start |-> call[i].env_at_start]]
    /\ UNCHANGED <<pipeline_vars, ret>>

\* the caller of an instance that has not started yet enables LLM-only mode for
\* it, as main() of demo.py does: os.environ['LLM_ONLY_MODE'] = 'true'
CallerEnablesLlmOnlyMode ==
    /\ ~LLM_ONLY_MODE
    /\ \E i \in DOMAIN call : call[i].pc = "not_started"
    /\ LLM_ONLY_MODE' = TRUE
    /\ UNCHANGED <<rest_of_pipeline_vars, call, ret>>

NextPar == StartInstance \/ RunStageOfInstance \/ CallerEnablesLlmOnlyMode

SpecPar == InitPar /\ [][NextPar]_vars

\* the results of an instance that runs alone from a stage on, the flag staying
\* as it was when the instance started
RECURSIVE AloneFrom(_, _, _)
AloneFrom(stage, data, llm_only_mode) ==
    IF stage \in {"done", "raised"} THEN {[pc |-> stage, data |-> data]}
    ELSE UNION {LET after == AfterStage(stage, data, llm_only_mode, llm)
                IN  AloneFrom(after.pc, after.data, llm_only_mode) :
                   llm \in ParAnswers[stage]}

\* C23: two instances running in parallel share no mutable state: under every
\* interleaving of their stages, what an instance ends with is something it can
\* end with when it runs alone.
C23_ParallelInstancesIndependent ==
    \A i \in DOMAIN call :
        call[i].pc \in {"done", "raised"} =>
            \E alone \in AloneFrom("cryptor", <<>>, call[i].env_at_start) :
                alone.pc = call[i].pc /\ alone.data = call[i].data

\* C23 as long as no caller has changed the flag
C23_IndependentWhileFlagUnchanged ==
    ~LLM_ONLY_MODE =>
        \A i \in DOMAIN call :
            call[i].pc \in {"done", "raised"} =>
                \E alone \in AloneFrom("cryptor", <<>>, call[i].env_at_start) :
                    alone.pc = call[i].pc /\ alone.data = call[i].data

\* an instance started in default mode built its bundle in the rule-based branch
\* and was then stopped by the LLM-only error of the Mimicus
C23_Witness_StoppedByOthersFlag ==
    \E i \in DOMAIN call :
        /\ call[i].env_at_start = FALSE
        /\ call[i].pc = "raised"
        /\ call[i].data.stage = "mimicus"
        /\ call[i].data.path = "llm"
        /\ LLM_ONLY_MODE

\* ------------------------------------- the stages in LLM-only mode, called directly

RawInstructionInput(instruction, language) ==
    [instruction |-> instruction, language |-> language]

IsOneOf(item, chars) == ~IsBlock(item) /\ item[1] \in chars

Digits == {"0", "1", "2", "3", "4", "5", "6", "7", "8", "9"}
Whitespace == {" "}
Letters == {UpperCase[i] : i \in 1..26} \cup {LowerCase[i] : i \in 1..26}

extract_intent(instruction) ==
    LET instruction_lower == Lower(instruction)
        any(words) == \E w \in words : Contains(instruction_lower, w)
    IN  IF any({Str(<<"e", "m", "a", "i", "l">>), Str(<<"m", "a", "i", "l">>)})
        THEN Str(<<"s", "e", "n", "d", "_", "e", "m", "a", "i", "l">>)
        ELSE IF any({s_transfer, Str(<<"s", "e", "n", "d">>), Str(<<"m", "o", "v", "e">>)})
        THEN s_transfer
        ELSE IF any({Str(<<"b", "o", "o", "k">>), Str(<<"r", "e", "s", "e", "r", "v", "e">>),
                     Str(<<"s", "c", "h", "e", "d", "u", "l", "e">>)})
        THEN Str(<<"b", "o", "o", "k", "_", "f", "l", "i", "g", "h", "t">>)
        ELSE Str(<<"u", "n", "k", "n", "o", "w", "n">>)

\* re.search(r'\$(\d{1,3},\d{3})', s): the matches as <<position of $, number of
\* leading digits>>
AmountMatches(s) ==
    {m \in (1..Len(s)) \X (1..3) :
        LET i == m[1]
            n == m[2]
        IN  /\ i + n + 4 <= Len(s)
            /\ IsOneOf(s[i], {"$"})
            /\ \A k \in 1..n : IsOneOf(s[i + k], Digits)
            /\ IsOneOf(s[i + n + 1], {","})
            /\ \A k \in 1..3 : IsOneOf(s[i + n + 1 + k], Digits)}

\* re.search(r'to\s+([A-Za-z\s]+?)(?:\s+from|\s+account|$)', s): the matches
\* as <<position of "to", last position of \s+, last position of the group>>
TailMatches(s, k) ==
    \/ k = Len(s)
    \/ \E n \in 1..(Len(s) - k) :
          /\ \A q \in 1..n : IsOneOf(s[k + q], Whitespace)
          /\ \/ StartsWith(DropFirst(s, k + n), s_from)
             \/ StartsWith(DropFirst(s, k + n), s_account)

DestinationMatches(s) ==
    {m \in (1..Len(s)) \X (1..Len(s)) \X (1..Len(s)) :
        LET i == m[1]
            j == m[2]
            k == m[3]
        IN  /\ i + 2 <= j /\ j < k
            /\ SubSeq(s, i, i + 1) = s_to
            /\ \A q \in (i + 2)..j : IsOneOf(s[q], Whitespace)
            /\ \A q \in (j + 1)..k : IsOneOf(s[q], Letters \cup Whitespace)
            /\ TailMatches(s, k)}

\* s.strip()
RECURSIVE Strip(_)
Strip(s) ==
    IF s = <<>> THEN s
    ELSE IF IsOneOf(Head(s), Whitespace) THEN Strip(Tail(s))
    ELSE IF IsOneOf(s[Len(s)], Whitespace) THEN Strip(SubSeq(s, 1, Len(s) - 1))
    ELSE s

s_acct_to_2 == Str(<<"1", "2", "3", "4", "-", "5", "6", "7", "8", "-", "9", "0", "1", "2", "-",
                     "3", "4", "5", "6">>)
s_acct_from_2 == Str(<<"9", "8", "7", "6", "-", "5", "4", "3", "2", "-", "1", "0", "9", "8", "-",
                       "7", "6", "5", "4">>)
s_acct_to_3 == Str(<<"1", "1", "1", "1", "-", "2", "2", "2", "2", "-", "3", "3", "3", "3", "-",
                     "4", "4", "4", "4">>)
s_acct_from_3 == Str(<<"5", "5", "5", "5", "-", "6", "6", "6", "6", "-", "7", "7", "7", "7", "-",
                       "8", "8", "8", "8">>)

extract_entities(instruction) ==
    LET amounts == AmountMatches(instruction)
        first == CHOOSE m \in amounts : \A o \in amounts : m[1] <= o[1]
        amount == SubSeq(instruction, first[1] + 1, first[1] + first[2])
                  \o SubSeq(instruction, first[1] + first[2] + 2, first[1] + first[2] + 4)
        e1 == IF amounts # {}
              THEN DictSet(<<>>, s_amount, amount \o Str(<<" ", "U", "S", "D">>))
              ELSE <<>>
        both(a, b) == Contains(instruction, a) /\ Contains(instruction, b)
        pair(e, a, b) == DictSet(DictSet(e, s_to_account, a), s_from_account, b)
        e2 == IF both(s_acct_to, s_acct_from) THEN pair(e1, s_acct_to, s_acct_from)
              ELSE IF both(s_acct_to_2, s_acct_from_2) THEN pair(e1, s_acct_to_2, s_acct_from_2)
              ELSE IF both(s_acct_to_3, s_acct_from_3) THEN pair(e1, s_acct_to_3, s_acct_from_3)
              ELSE IF Contains(instruction, s_acct_to_2) THEN DictSet(e1, s_account, s_acct_to_2)
              ELSE e1
        dests == DestinationMatches(instruction)
        leftmost == {m \in dests : \A o \in dests : m[1] <= o[1]}
        greedy == {m \in leftmost : \A o \in leftmost : m[2] >= o[2]}
        dest == CHOOSE m \in greedy : \A o \in greedy : m[3] <= o[3]
    IN  IF dests # {}
        THEN DictSet(e2, Str(<<"d", "e", "s", "t", "i", "n", "a", "t", "i", "o", "n">>),
                     Strip(SubSeq(instruction, dest[2] + 1, dest[3])))
        ELSE e2

\* a prompter that parses by rule whenever the service gives no usable answer
run_prompter_always_falls_back(inp, llm_only_mode, llm) ==
    IF LlmParsed(llm) /\ ~LlmRejected(llm)
    THEN Returned(SemanticPromptOut(LlmGet(llm, "intent", Str(<<"u", "n", "k", "n", "o", "w", "n">>)),
                                    LlmGet(llm, "entities", <<>>),
                                    LlmGet(llm, "auth_level", s_L4)), "llm")
    ELSE Returned(SemanticPromptOut(extract_intent(inp.instruction),
                                    extract_entities(inp.instruction), s_L4), "fallback")

run_prompter(inp, llm_only_mode, llm) ==
    IF LlmParsed(llm) /\ ~LlmRejected(llm)
    THEN Returned(SemanticPromptOut(LlmGet(llm, "intent", Str(<<"u", "n", "k", "n", "o", "w", "n">>)),
                                    LlmGet(llm, "entities", <<>>),
                                    LlmGet(llm, "auth_level", s_L4)), "llm")
    ELSE IF llm_only_mode THEN Raised("llm")
    ELSE Returned(SemanticPromptOut(extract_intent(inp.instruction),
                                    extract_entities(inp.instruction), s_L4), "fallback")

\* the instructions of run_pipeline_demo and run_pipeline_with_feedback, and one
\* with a destination
Instructions ==
    { RawInstructionInput(
          Str(<<"T", "r", "a", "n", "s", "f", "e", "r", " ", "$", "7", "5", ",", "0", "0",
              "0", " ", "t", "o", " ", "a", "c", "c", "o", "u", "n", "t", " ", "7", "3",
              "9", "5", "-", "8", "8", "4", "5", "-", "2", "2", "9", "1", " ", "f", "r",
              "o", "m", " ", "a", "c", "c", "o", "u", "n", "t", " ", "1", "5", "5", "9",
              "-", "6", "6", "2", "3", "-", "4", "4", "0", "1">>),
          Str(<<"E", "N">>)),
      RawInstructionInput(
          Str(<<"T", "r", "a", "n", "s", "f", "e", "r", " ", "$", "5", "0", ",", "0", "0",
              "0", " ", "t", "o", " ", "a", "c", "c", "o", "u", "n", "t", " ", "1", "2",
              "3", "4", "-", "5", "6", "7", "8", "-", "9", "0", "1", "2", "-", "3", "4",
              "5", "6", " ", "f", "r", "o", "m", " ", "a", "c", "c", "o", "u", "n", "t",
              " ", "9", "8", "7", "6", "-", "5", "4", "3", "2", "-", "1", "0", "9", "8",
              "-", "7", "6", "5", "4">>),
          Str(<<"E", "N">>)),
      RawInstructionInput(Str(<<"B", "o", "o", "k", " ", "a", " ", "f", "l", "i", "g", "h", "t", " ", "t",
              "o", " ", "P", "a", "r", "i", "s">>), Str(<<"E", "N">>)) }

PrompterAnswers ==
    FailingAnswers \cup
    { LlmDict([intent |-> Good(s_transfer), entities |-> Good(InputPool[2].entities),
               auth_level |-> Good(s_L5)]),
      LlmDict([intent |-> Good(s_transfer)]),
      LlmDict([entities |-> IllTyped]) }

InitLlm ==
    /\ PipelineIdle
    /\ call = NoCalls
    /\ ret = <<>>

\* one call of one stage from a fresh process; ret is what the stage handed
\* back: the value it returned or the fact that it raised, and the branch that
\* did it
CallRunPrompter ==
    /\ call = NoCalls
    /\ \E inp \in Instructions, llm_only_mode \in BOOLEAN, llm \in PrompterAnswers :
          /\ call' = <<[fn |-> "run_prompter", inp |-> inp, llm_only_mode |-> llm_only_mode,
                        llm |-> llm]>>
          /\ ret' = <<run_prompter(inp, llm_only_mode, llm)>>
    /\ UNCHANGED pipeline_vars

CallRunCryptor ==
    /\ call = NoCalls
    /\ \E inp \in Inputs, llm_only_mode \in BOOLEAN, llm \in CryptorAnswers, now \in Times :
          /\ call' = <<[fn |-> "run_cryptor", inp |-> inp, llm_only_mode |-> llm_only_mode,
                        llm |-> llm]>>
          /\ ret' = <<run_cryptor(inp, NoTheta, llm_only_mode, llm,
                                  CryptorDraws(DrawStream(1), 1 + Len(inp.entities)), now)>>
    /\ UNCHANGED pipeline_vars

CallRunMimicus ==
    /\ call = NoCalls
    /\ \E inp \in {r \in RecoveredFields : Len(r.entities) <= 1},
          llm_only_mode \in BOOLEAN, llm \in MimicusAnswers :
          /\ call' = <<[fn |-> "run_mimicus", inp |-> inp, llm_only_mode |-> llm_only_mode,
                        llm |-> llm]>>
          /\ ret' = <<run_mimicus(inp, llm_only_mode, llm, DrawStream(1))>>
    /\ UNCHANGED pipeline_vars

CallRunProbator ==
    /\ call = NoCalls
    /\ \E shape \in {sh \in ProbeShapes : sh[1] = sh[2]},
          llm_only_mode \in BOOLEAN, llm \in ProbatorAnswers, draw \in ProbeDraws :
          LET inp == ProbeBundle(shape[1], shape[2], shape[3])
          IN  /\ call' = <<[fn |-> "run_probator", inp |-> inp,
                            llm_only_mode |-> llm_only_mode, llm |-> llm]>>
              /\ ret' = <<run_probator(inp, llm_only_mode, llm, draw, draw)>>
    /\ UNCHANGED pipeline_vars

CallRunPraeceptor ==
    /\ call = NoCalls
    /\ \E leakage_score \in {0, RoundOneScore, One}, hk_protection \in {"active", "partial"},
          llm_only_mode \in BOOLEAN, llm \in PraeceptorAnswers, ties \in Ties :
          LET inp == LeakageVectorOut(leakage_score, NoKeys, hk_protection)
          IN  /\ call' = <<[fn |-> "run_praeceptor", inp |-> inp,
                            llm_only_mode |-> llm_only_mode, llm |-> llm]>>
              /\ ret' = <<run_praeceptor(inp, llm_only_mode, llm, ties)>>
    /\ UNCHANGED pipeline_vars

NextLlm ==
    \/ CallRunPrompter
    \/ CallRunCryptor
    \/ CallRunMimicus
    \/ CallRunProbator
    \/ CallRunPraeceptor

SpecLlm == InitLlm /\ [][NextLlm]_vars

\* C24: with LLM-only mode enabled, none of run_prompter, run_cryptor,
\* run_mimicus, run_probator and run_praeceptor returns a result of its
\* rule-based fallback: each returns what it built from the service's answer, or
\* raises.
C24_NoFallbackInLlmOnlyMode ==
    \A i \in DOMAIN call :
        call[i].llm_only_mode =>
            /\ ret[i].path = "llm"
            /\ ~ret[i].raised => (LlmParsed(call[i].llm) /\ ~LlmRejected(call[i].llm))

\* in LLM-only mode run_prompter got no answer for the demo instruction and
\* raised
C24_Witness_PrompterRaised ==
    /\ call # NoCalls
    /\ call[1].fn = "run_prompter"
    /\ call[1].llm_only_mode
    /\ call[1].llm = LlmNone
    /\ Contains(call[1].inp.instruction, s_acct_to)
    /\ ret[1].raised

\* the rule-based prompter on the demo instruction, in default mode
C24_PrompterParsesDemoInstruction ==
    \A i \in DOMAIN call :
        ( /\ call[i].fn = "run_prompter"
          /\ ~call[i].llm_only_mode
          /\ call[i].llm = LlmNone
          /\ Contains(call[i].inp.instruction, s_acct_to) )
        => ret[i].value = InputPool[1]

\* ----------------------- Mimicus, Probator and Praeceptor, rule-based, in a row

InitBand ==
    /\ PipelineIdle
    /\ call = NoCalls
    /\ ret = <<>>

\* mimicus_out = run_mimicus(decryptor_out); probator_out =
\* run_probator(mimicus_out); praeceptor_out = run_praeceptor(probator_out), with
\* no answer from the service, on any RecoveredFields
CallRuleBasedRound ==
    /\ call = NoCalls
    /\ \E decryptor_out_ \in RecoveredFields, stream \in Streams, er_draw \in ProbeDraws,
          sd_draw \in ProbeDraws, ties \in Ties :
          LET mimicus_out_ == run_mimicus(decryptor_out_, FALSE, LlmNone, stream).value
              probator_out_ == run_probator(mimicus_out_, FALSE, LlmNone, er_draw, sd_draw).value
              praeceptor_out_ == run_praeceptor(probator_out_, FALSE, LlmNone, ties).value
          IN  /\ call' = <<[fn |-> "round", decryptor_out |-> decryptor_out_]>>
              /\ ret' = <<[mimicus_out |-> mimicus_out_, probator_out |-> probator_out_,
                           praeceptor_out |-> praeceptor_out_]>>
    /\ UNCHANGED pipeline_vars

NextBand == CallRuleBasedRound

SpecBand == InitBand /\ [][NextBand]_vars

\* C30: in every round in which Mimicus, the Probator and the Praeceptor all run
\* their rule-based algorithms, the leakage score lies between 0.47 and 0.74 for
\* every input and every draw, and the mode is one of recalibrate,
\* aggressive_recalibrate and emergency_recalibrate, never maintain or fine_tune.
C30_RuleBasedScoreBand ==
    \A i \in DOMAIN call :
        call[i].fn = "round" =>
            /\ RuleScoreLow <= ret[i].probator_out.leakage_score
            /\ ret[i].probator_out.leakage_score <= RuleScoreHigh
            /\ ret[i].praeceptor_out.mode
                   \in {"recalibrate", "aggressive_recalibrate", "emergency_recalibrate"}

\* a round on entities amount and to_account with the highest draws:
\* entity_recovery 0.4, semantic_drift 0.3, both targeted tags, score 0.74, mode
\* emergency_recalibrate
C30_Witness_HighestScore ==
    /\ call # NoCalls
    /\ call[1].fn = "round"
    /\ call[1].decryptor_out.entities = PickEntities({1, 2}, 1)
    /\ ret[1].probator_out.details.entity_recovery = EntityRecoveryHigh
    /\ ret[1].probator_out.details.semantic_drift = SemanticDriftLow
    /\ ret[1].probator_out.details.field_mapping_accuracy = MappingAmount + MappingAccount
    /\ ret[1].probator_out.leakage_score = RuleScoreHigh
    /\ ret[1].praeceptor_out.mode = "emergency_recalibrate"

====
